---- MODULE Spec2Model ----
(***************************************************************************)
(* The MCP protocol server of prospero (package internal/mcp): the prompt  *)
(* registry, the JSON-RPC dispatcher with its session flag, the line       *)
(* (stdio) transport and the HTTP transport.                               *)
(***************************************************************************)
EXTENDS Integers, Sequences, FiniteSets, TLC

(***************************************************************************)
(* Bounds of the model.                                                    *)
(***************************************************************************)
\* Longest JSON array POSTed as a batch.
MaxBatch == 2
\* Connections whose handlers run at the same time.
MaxConns == 2
\* Lines read by the loop of Run while it is followed.
MaxLines == 2
\* Calls made one after another on a registry directly.
MaxCalls == 3

(***************************************************************************)
(* JSON values.  Every value is a record tagged by its kind k; the payload *)
(* field has a different name per kind.  Nil is Go's nil (an absent or     *)
(* null interface{} value, a nil pointer, a nil error).                    *)
(***************************************************************************)
Nil == [k |-> "nil"]
TypedNil == [k |-> "typednil"]
JNull == [k |-> "null"]
JStr(x) == [k |-> "string", s |-> x]
\* A number carries its decimal text.
JNum(x) == [k |-> "number", n |-> x]
JBool(x) == [k |-> "bool", b |-> x]
JArr(x) == [k |-> "array", e |-> x]
JObj(x) == [k |-> "object", f |-> x]
\* A body that is not JSON at all, and the empty line of the line transport.
Garbage == [k |-> "garbage"]
EmptyLine == [k |-> "empty"]

\* The value of member key of JSON object v, JSON null when it has none.
\* (encoding/json matches member names to json tags ignoring case; the
\* inputs below spell every member as its tag.)
Field(v, key) == IF key \in DOMAIN v.f THEN v.f[key] ELSE JNull

\* The decimal texts of the numbers among the inputs.
NumberTexts == {"1", "2", "7", "9007199254740993"}

\* A number decoded into an interface{} is held as a float64, and a float64
\* is written as the shortest decimal text that gives it back.  The integers
\* up to 2^53 = 9007199254740992 are float64 values; 2^53 + 1 is not, and is
\* rounded to 2^53.  Defined for NumberTexts.
Float64(text) ==
    IF text = "9007199254740993" THEN "9007199254740992" ELSE text

\* encoding/json decoding a value into an interface{}: null gives nil, a
\* number a float64, given here by the text it is written back as.  (Numbers
\* inside arrays and objects are left as they are: only their kind is used.)
DecodeAny(v) ==
    IF v.k = "null" THEN Nil
    ELSE IF v.k = "number" THEN JNum(Float64(v.n))
    ELSE v

\* encoding/json decoding into a Go string / bool: null is a no-op, any
\* other kind than the field's is an UnmarshalTypeError.
DecodesAsString(v) == v.k \in {"string", "null"}
DecodesAsBool(v) == v.k \in {"bool", "null"}
StringOf(v) == IF v.k = "string" THEN v.s ELSE ""

(***************************************************************************)
(* Protocol message types.                                                 *)
(***************************************************************************)
ZeroRequest == [jsonrpc |-> "", id |-> Nil, method |-> "", params |-> Nil]

\* json.Unmarshal(bytes, &request) for a JSONRPCRequest.
UnmarshalRequest(body) ==
    IF body.k = "null" THEN [err |-> FALSE, request |-> ZeroRequest]
    ELSE IF body.k # "object" THEN [err |-> TRUE, request |-> ZeroRequest]
    ELSE IF ~DecodesAsString(Field(body, "jsonrpc"))
            \/ ~DecodesAsString(Field(body, "method"))
         THEN [err |-> TRUE, request |-> ZeroRequest]
         ELSE [err |-> FALSE,
               request |-> [jsonrpc |-> StringOf(Field(body, "jsonrpc")),
                            id |-> DecodeAny(Field(body, "id")),
                            method |-> StringOf(Field(body, "method")),
                            params |-> DecodeAny(Field(body, "params"))]]

\* json.Unmarshal(bytes, &batch) for a []JSONRPCRequest.
UnmarshalBatch(body) ==
    IF body.k = "null" THEN [err |-> FALSE, batch |-> <<>>]
    ELSE IF body.k # "array" THEN [err |-> TRUE, batch |-> <<>>]
    ELSE LET elems == [i \in DOMAIN body.e |-> UnmarshalRequest(body.e[i])]
         IN  IF \E i \in DOMAIN elems : elems[i].err
             THEN [err |-> TRUE, batch |-> <<>>]
             ELSE [err |-> FALSE, batch |-> [i \in DOMAIN elems |-> elems[i].request]]

\* Decoding into ClientInfo, RootsCapability, SamplingCapability, Capabilities.
DecodesAsClientInfo(v) ==
    \/ v.k = "null"
    \/ /\ v.k = "object"
       /\ DecodesAsString(Field(v, "name"))
       /\ DecodesAsString(Field(v, "version"))

DecodesAsRootsCapability(v) ==
    \/ v.k = "null"
    \/ v.k = "object" /\ DecodesAsBool(Field(v, "listChanged"))

DecodesAsSamplingCapability(v) == v.k \in {"null", "object"}

DecodesAsCapabilities(v) ==
    \/ v.k = "null"
    \/ /\ v.k = "object"
       /\ DecodesAsRootsCapability(Field(v, "roots"))
       /\ DecodesAsSamplingCapability(Field(v, "sampling"))

\* json.Unmarshal(paramBytes, &params) for InitializeParams.
UnmarshalInitializeParams(v) ==
    IF v.k = "null" THEN [err |-> FALSE, protocolVersion |-> ""]
    ELSE IF /\ v.k = "object"
            /\ DecodesAsString(Field(v, "protocolVersion"))
            /\ DecodesAsCapabilities(Field(v, "capabilities"))
            /\ DecodesAsClientInfo(Field(v, "clientInfo"))
         THEN [err |-> FALSE, protocolVersion |-> StringOf(Field(v, "protocolVersion"))]
         ELSE [err |-> TRUE, protocolVersion |-> ""]

\* Decoding into a map[string]string: a null member value stores "".
DecodesAsStringMap(v) ==
    \/ v.k = "null"
    \/ v.k = "object" /\ \A key \in DOMAIN v.f : DecodesAsString(v.f[key])

StringMapOf(v) ==
    IF v.k = "object" THEN [key \in DOMAIN v.f |-> StringOf(v.f[key])] ELSE Nil

ZeroGetPromptParams == [name |-> "", arguments |-> Nil]

\* json.Unmarshal(paramBytes, &params) for GetPromptParams.
UnmarshalGetPromptParams(v) ==
    IF v.k = "null" THEN [err |-> FALSE, params |-> ZeroGetPromptParams]
    ELSE IF /\ v.k = "object"
            /\ DecodesAsString(Field(v, "name"))
            /\ DecodesAsStringMap(Field(v, "arguments"))
         THEN [err |-> FALSE,
               params |-> [name |-> StringOf(Field(v, "name")),
                           arguments |-> StringMapOf(Field(v, "arguments"))]]
         ELSE [err |-> TRUE, params |-> ZeroGetPromptParams]

(***************************************************************************)
(* Prompt registry.                                                        *)
(***************************************************************************)
PromptNames == {"p", "q"}

\* The metadata a prompt is registered with.
Prompt(name) == [name |-> name, description |-> "A test prompt", arguments |-> <<>>]

\* Prompt handlers, by what they do when invoked: return a result, return
\* an error, or return neither (a nil result and a nil error).
Handlers == {"ok", "fail", "nil"}

HandlerResult ==
    [description |-> "Test prompt result",
     messages |-> <<[role |-> "user",
                     content |-> [type |-> "text", text |-> "Hello, World"]]>>]

HandlerError == "handler failed"

\* handler(ctx, args): the pair (result, err) it returns; err is the error's
\* message, Nil for a nil error.
InvokeHandler(handler, args) ==
    CASE handler = "ok" -> [result |-> HandlerResult, err |-> Nil]
      [] handler = "fail" -> [result |-> Nil, err |-> JStr(HandlerError)]
      [] OTHER -> [result |-> Nil, err |-> Nil]

NewPromptRegistry == [prompts |-> <<>>, handlers |-> <<>>]

\* m[key] = value on a Go map.
MapSet(m, key, value) ==
    [x \in DOMAIN m \cup {key} |-> IF x = key THEN value ELSE m[x]]
\* Mutant: only the metadata is stored; the handler map is left as it was.
Register_MetadataOnly(r, prompt, handler) ==
    [prompts |-> MapSet(r.prompts, prompt.name, prompt),
     handlers |-> r.handlers]

Register(r, prompt, handler) ==
    [prompts |-> MapSet(r.prompts, prompt.name, prompt),
     handlers |-> MapSet(r.handlers, prompt.name, handler)]

\* The orders in which a range over a map with key set S may visit it.
Perms(S) ==
    {p \in [1..Cardinality(S) -> S] : \A i, j \in DOMAIN p : i # j => p[i] # p[j]}
\* Mutant: the slice is made with the length of the map, not only the
\* capacity, so the appended prompts follow as many zero prompts.
List_MakeLen(r, order) ==
    [i \in DOMAIN order |-> [name |-> "", description |-> "", arguments |-> <<>>]]
    \o [i \in DOMAIN order |-> r.prompts[order[i]]]

\* List ranges over r.prompts; order is the order the range visits the keys.
List(r, order) == [i \in DOMAIN order |-> r.prompts[order[i]]]
\* One invocation of a registered handler: the name it is registered under
\* and the arguments passed.
HandlerCall(name, args) == [name |-> name, args |-> args]

\* Mutant: a name without a handler is not an error; nothing is returned.
Execute_UnknownIsNothing(r, name, args) ==
    IF name \notin DOMAIN r.handlers
    THEN [result |-> Nil, err |-> Nil, calls |-> <<>>]
    ELSE [result |-> InvokeHandler(r.handlers[name], args).result,
          err |-> InvokeHandler(r.handlers[name], args).err,
          calls |-> <<HandlerCall(name, args)>>]

\* Execute(ctx, name, args): what it returns, and in calls the handler
\* invocations it made.
Execute(r, name, args) ==
    IF name \notin DOMAIN r.handlers
    THEN [result |-> Nil, err |-> JStr("prompt not found: " \o name), calls |-> <<>>]
    ELSE [result |-> InvokeHandler(r.handlers[name], args).result,
          err |-> InvokeHandler(r.handlers[name], args).err,
          calls |-> <<HandlerCall(name, args)>>]

(***************************************************************************)
(* Server: the dispatcher and its session state.                           *)
(***************************************************************************)
NewServer(name, version) ==
    [name |-> name, version |-> version, promptRegistry |-> NewPromptRegistry,
     initialized |-> FALSE, protocolVersion |-> "2025-03-26"]

RegisterPrompt(s, prompt, handler) ==
    [s EXCEPT !.promptRegistry = Register(s.promptRegistry, prompt, handler)]

errorResponse(id, code, message, data) ==
    [jsonrpc |-> "2.0", id |-> id, result |-> Nil,
     error |-> [code |-> code, message |-> message, data |-> data]]

resultResponse(id, result) ==
    [jsonrpc |-> "2.0", id |-> id, result |-> result, error |-> Nil]

InitializeResult(protocolVersion, name, version) ==
    [protocolVersion |-> protocolVersion,
     capabilities |-> [prompts |-> [listChanged |-> FALSE], tools |-> Nil],
     serverInfo |-> [name |-> name, version |-> version]]

\* Mutant: answers with the protocol version the client asked for.
handleInitialize_EchoClient(s, request) ==
    IF request.params # Nil /\ UnmarshalInitializeParams(request.params).err
    THEN errorResponse(request.id, -32602, "Invalid params", Nil)
    ELSE resultResponse(request.id,
             InitializeResult(
                 IF request.params # Nil
                    /\ UnmarshalInitializeParams(request.params).protocolVersion # ""
                 THEN UnmarshalInitializeParams(request.params).protocolVersion
                 ELSE s.protocolVersion,
                 s.name, s.version))

\* Mutant: the result of decoding the params is not looked at.
handleInitialize_NoParamCheck(s, request) ==
    resultResponse(request.id, InitializeResult(s.protocolVersion, s.name, s.version))

handleInitialize(s, request) ==
    IF request.params # Nil /\ UnmarshalInitializeParams(request.params).err
    THEN errorResponse(request.id, -32602, "Invalid params", Nil)
    ELSE resultResponse(request.id,
             InitializeResult(s.protocolVersion, s.name, s.version))

handlePromptsList(s, order, request) ==
    resultResponse(request.id, [prompts |-> List(s.promptRegistry, order), nextCursor |-> ""])

\* The params of a prompts/get request as handlePromptsGet decodes them.
GetPromptParamsOf(request) ==
    IF request.params # Nil THEN UnmarshalGetPromptParams(request.params)
    ELSE [err |-> FALSE, params |-> ZeroGetPromptParams]
\* Mutant: the result is kept as the pointer the handler returned, so that a
\* nil pointer is a nil Result.
AsInterface_Pointer(ptr) == ptr

\* A *GetPromptResult stored in the interface-typed Result field: a nil
\* pointer gives a non-nil interface value.
AsInterface(ptr) == IF ptr = Nil THEN TypedNil ELSE ptr

\* Mutant: a fixed message, the failure's message attached as data.
handlePromptsGet_ErrInData(s, request) ==
    LET p == GetPromptParamsOf(request)
        r == Execute(s.promptRegistry, p.params.name, p.params.arguments)
    IN  IF p.err
        THEN [response |-> errorResponse(request.id, -32602, "Invalid params", Nil),
              calls |-> <<>>]
        ELSE IF r.err # Nil
             THEN [response |-> errorResponse(request.id, -32603, "Internal error", r.err),
                   calls |-> r.calls]
             ELSE [response |-> resultResponse(request.id, AsInterface(r.result)),
                   calls |-> r.calls]

\* Mutant: the error of decoding the params is not looked at; the lookup
\* runs on whatever was decoded.
handlePromptsGet_NoParamCheck(s, request) ==
    LET p == GetPromptParamsOf(request)
        r == Execute(s.promptRegistry, p.params.name, p.params.arguments)
    IN  IF r.err # Nil
        THEN [response |-> errorResponse(request.id, -32603, r.err.s, Nil),
              calls |-> r.calls]
        ELSE [response |-> resultResponse(request.id, AsInterface(r.result)),
              calls |-> r.calls]
\* Mutant: a request without params is answered -32602.
handlePromptsGet_ParamsRequired(s, request) ==
    LET p == GetPromptParamsOf(request)
        r == Execute(s.promptRegistry, p.params.name, p.params.arguments)
    IN  IF p.err \/ request.params = Nil
        THEN [response |-> errorResponse(request.id, -32602, "Invalid params", Nil),
              calls |-> <<>>]
        ELSE IF r.err # Nil
             THEN [response |-> errorResponse(request.id, -32603, r.err.s, Nil),
                   calls |-> r.calls]
             ELSE [response |-> resultResponse(request.id, AsInterface(r.result)),
                   calls |-> r.calls]

\* handlePromptsGet(ctx, request): the response, and in calls the handler
\* invocations made for it.
handlePromptsGet(s, request) ==
    LET p == GetPromptParamsOf(request)
        r == Execute(s.promptRegistry, p.params.name, p.params.arguments)
    IN  IF p.err
        THEN [response |-> errorResponse(request.id, -32602, "Invalid params", Nil),
              calls |-> <<>>]
        ELSE IF r.err # Nil
             THEN [response |-> errorResponse(request.id, -32603, r.err.s, Nil),
                   calls |-> r.calls]
             ELSE [response |-> resultResponse(request.id, AsInterface(r.result)),
                   calls |-> r.calls]
(***************************************************************************)
(* Encoding of the response envelope, as the transports write it.          *)
(***************************************************************************)
\* The JSON that json.Marshal gives for the Go value x of a result or an
\* error code; its text is not taken apart here.
Marshal(x) == [k |-> "marshalled", v |-> x]

\* The id member: a nil ID is written as null, any other as the value held.
EncodeID(id) == IF id = Nil THEN JNull ELSE id

\* The error member, a JSONRPCError: data is left out when nil.
EncodeError(e) ==
    JObj([code |-> Marshal(e.code), message |-> JStr(e.message)]
         @@ (IF e.data # Nil THEN [data |-> Marshal(e.data)] ELSE <<>>))

\* json.NewEncoder(w).Encode(response) for a JSONRPCResponse: jsonrpc and id
\* are always written; result is left out when the interface value is nil,
\* and a nil pointer held in it is written as null; error is left out when
\* the pointer is nil.
EncodeResponse(r) ==
    JObj([jsonrpc |-> JStr(r.jsonrpc), id |-> EncodeID(r.id)]
         @@ (IF r.result = Nil THEN <<>>
             ELSE [result |-> IF r.result = TypedNil THEN JNull ELSE Marshal(r.result)])
         @@ (IF r.error = Nil THEN <<>> ELSE [error |-> EncodeError(r.error)]))

NotInitialized(request) ==
    errorResponse(request.id, -32002, "Server not initialized", Nil)

\* handleRequest with one slip, named by bug, for the mutants below.
handleRequestWith(bug, s, order, request) ==
    CASE request.method = "initialize" ->
            [s |-> IF bug = "initialize sets the flag"
                   THEN [s EXCEPT !.initialized = TRUE] ELSE s,
             response |-> handleInitialize(s, request), calls |-> <<>>]
      [] request.method = "initialized" ->
            [s |-> CASE bug = "initialized toggles the flag" ->
                            [s EXCEPT !.initialized = ~s.initialized]
                     [] bug = "initialized is ignored" -> s
                     [] OTHER -> [s EXCEPT !.initialized = TRUE],
             response |-> Nil, calls |-> <<>>]
      [] request.method = "prompts/list" ->
            [s |-> s,
             response |-> IF ~s.initialized THEN NotInitialized(request)
                          ELSE handlePromptsList(s, order, request),
             calls |-> <<>>]
      [] request.method = "prompts/get" ->
            IF ~s.initialized /\ bug # "prompts/get is not gated"
            THEN [s |-> s, response |-> NotInitialized(request), calls |-> <<>>]
            ELSE [s |-> s, response |-> handlePromptsGet(s, request).response,
                  calls |-> handlePromptsGet(s, request).calls]
      [] OTHER ->
            [s |-> IF bug = "an unknown method resets the session"
                   THEN [s EXCEPT !.initialized = FALSE] ELSE s,
             response |-> IF ~s.initialized /\ bug = "every method is gated"
                          THEN NotInitialized(request)
                          ELSE errorResponse(request.id, -32601, "Method not found", Nil),
             calls |-> <<>>]

handleRequest_NoGetGate(s, order, request) ==
    handleRequestWith("prompts/get is not gated", s, order, request)

handleRequest_InitializeSets(s, order, request) ==
    handleRequestWith("initialize sets the flag", s, order, request)

handleRequest_InitializedIgnored(s, order, request) ==
    handleRequestWith("initialized is ignored", s, order, request)

handleRequest_Toggle(s, order, request) ==
    handleRequestWith("initialized toggles the flag", s, order, request)

handleRequest_UnknownResets(s, order, request) ==
    handleRequestWith("an unknown method resets the session", s, order, request)

handleRequest_GateAll(s, order, request) ==
    handleRequestWith("every method is gated", s, order, request)

\* handleRequest(ctx, request): the server after the dispatch, the response
\* (Nil for none) and the handler invocations made.  order is the order in which a range over the
\* registry's prompt map visits it during this dispatch.
handleRequest(s, order, request) ==
    CASE request.method = "initialize" ->
            [s |-> s, response |-> handleInitialize(s, request), calls |-> <<>>]
      [] request.method = "initialized" ->
            [s |-> [s EXCEPT !.initialized = TRUE], response |-> Nil, calls |-> <<>>]
      [] request.method = "prompts/list" ->
            [s |-> s,
             response |-> IF ~s.initialized THEN NotInitialized(request)
                          ELSE handlePromptsList(s, order, request),
             calls |-> <<>>]
      [] request.method = "prompts/get" ->
            IF ~s.initialized
            THEN [s |-> s, response |-> NotInitialized(request), calls |-> <<>>]
            ELSE [s |-> s, response |-> handlePromptsGet(s, request).response,
                  calls |-> handlePromptsGet(s, request).calls]
      [] OTHER ->
            [s |-> s,
             response |-> errorResponse(request.id, -32601, "Method not found", Nil),
             calls |-> <<>>]

(***************************************************************************)
(* What a transport call did: the server after it, the dispatches it made  *)
(* in order, the response envelopes it wrote in order and, for HTTP, the   *)
(* status line.  These are recorded so that properties of a call can be    *)
(* stated on the state after it.                                           *)
(***************************************************************************)
\* The session part of the server.
Session(s) == [initialized |-> s.initialized, protocolVersion |-> s.protocolVersion]

\* History of the dispatches made so far: whether an `initialized` message
\* was dispatched, and whether an initialize was answered with a result.
NoHistory == [initialized |-> FALSE, initializeOK |-> FALSE]

NextHistory(h, request, response) ==
    [initialized |-> h.initialized \/ request.method = "initialized",
     initializeOK |-> h.initializeOK
                      \/ (request.method = "initialize" /\ response # Nil
                          /\ response.error = Nil)]

\* The calls of handleRequest for reqs in order, from server s and history h;
\* orders[i] is the map iteration order during the i-th call.
RECURSIVE Dispatch(_, _, _, _)
Dispatch(s, h, orders, reqs) ==
    IF reqs = <<>> THEN [s |-> s, hist |-> h, dispatched |-> <<>>]
    ELSE LET r == handleRequest(s, Head(orders), Head(reqs))
             d == [request |-> Head(reqs), response |-> r.response,
                   calls |-> r.calls, before |-> Session(s), after |-> Session(r.s), hist |-> h]
             rest == Dispatch(r.s, NextHistory(h, Head(reqs), r.response),
                              Tail(orders), Tail(reqs))
         IN  [s |-> rest.s, hist |-> rest.hist,
              dispatched |-> <<d>> \o rest.dispatched]

\* A written envelope; from is the index of the dispatch it answers, 0 for
\* an envelope that answers no dispatch (a parse error).
Written(from, envelope) == [from |-> from, envelope |-> envelope]

NoHTTP == [status |-> 0, contentType |-> "", array |-> FALSE]

ParseError == errorResponse(Nil, -32700, "Parse error", Nil)

(***************************************************************************)
(* Line transport: one iteration of the loop of Run, for the line read.    *)
(***************************************************************************)
\* Mutant: a line that does not parse is skipped like an empty one.
Run_SkipUnparseable(s, h, orders, line) ==
    LET parsed == UnmarshalRequest(line)
        d == Dispatch(s, h, orders, <<parsed.request>>)
    IN  IF line = EmptyLine \/ parsed.err
        THEN [s |-> s, hist |-> h, dispatched |-> <<>>, out |-> <<>>, http |-> NoHTTP]
        ELSE [s |-> d.s, hist |-> d.hist, dispatched |-> d.dispatched,
              out |-> IF d.dispatched[1].response # Nil
                      THEN <<Written(1, d.dispatched[1].response)>> ELSE <<>>,
              http |-> NoHTTP]

Run(s, h, orders, line) ==
    LET parsed == UnmarshalRequest(line)
        d == Dispatch(s, h, orders, <<parsed.request>>)
    IN  IF line = EmptyLine
        THEN [s |-> s, hist |-> h, dispatched |-> <<>>, out |-> <<>>, http |-> NoHTTP]
        ELSE IF parsed.err
        THEN [s |-> s, hist |-> h, dispatched |-> <<>>,
              out |-> <<Written(0, ParseError)>>, http |-> NoHTTP]
        ELSE [s |-> d.s, hist |-> d.hist, dispatched |-> d.dispatched,
              out |-> IF d.dispatched[1].response # Nil
                      THEN <<Written(1, d.dispatched[1].response)>> ELSE <<>>,
              http |-> NoHTTP]

(***************************************************************************)
(* HTTP transport.                                                         *)
(***************************************************************************)
\* Mutant: a message without an id is answered 202 before it is dispatched.
handleSingleRequest_DropNotification(s, h, orders, request) ==
    LET d == Dispatch(s, h, orders, <<request>>)
    IN  IF request.id = Nil
        THEN [s |-> s, hist |-> h, dispatched |-> <<>>, out |-> <<>>,
              http |-> [status |-> 202, contentType |-> "", array |-> FALSE]]
        ELSE [s |-> d.s, hist |-> d.hist, dispatched |-> d.dispatched,
              out |-> IF d.dispatched[1].response # Nil
                      THEN <<Written(1, d.dispatched[1].response)>> ELSE <<>>,
              http |-> [status |-> 200, contentType |-> "application/json",
                        array |-> FALSE]]
\* Mutant: a message without a method is rejected as an invalid request
\* before it is dispatched.
handleSingleRequest_MethodRequired(s, h, orders, request) ==
    LET d == Dispatch(s, h, orders, <<request>>)
    IN  IF request.method = ""
        THEN [s |-> s, hist |-> h, dispatched |-> <<>>,
              out |-> <<Written(0, errorResponse(request.id, -32600,
                                                 "Invalid Request", Nil))>>,
              http |-> [status |-> 400, contentType |-> "application/json",
                        array |-> FALSE]]
        ELSE IF request.id = Nil
        THEN [s |-> d.s, hist |-> d.hist, dispatched |-> d.dispatched, out |-> <<>>,
              http |-> [status |-> 202, contentType |-> "", array |-> FALSE]]
        ELSE [s |-> d.s, hist |-> d.hist, dispatched |-> d.dispatched,
              out |-> IF d.dispatched[1].response # Nil
                      THEN <<Written(1, d.dispatched[1].response)>> ELSE <<>>,
              http |-> [status |-> 200, contentType |-> "application/json",
                        array |-> FALSE]]

handleSingleRequest(s, h, orders, request) ==
    LET d == Dispatch(s, h, orders, <<request>>)
    IN  IF request.id = Nil
        THEN [s |-> d.s, hist |-> d.hist, dispatched |-> d.dispatched, out |-> <<>>,
              http |-> [status |-> 202, contentType |-> "", array |-> FALSE]]
        ELSE [s |-> d.s, hist |-> d.hist, dispatched |-> d.dispatched,
              out |-> IF d.dispatched[1].response # Nil
                      THEN <<Written(1, d.dispatched[1].response)>> ELSE <<>>,
              http |-> [status |-> 200, contentType |-> "application/json",
                        array |-> FALSE]]

\* The responses slice of handleBatchRequest after the first n dispatches.
RECURSIVE Responses(_, _)
Responses(dispatched, n) ==
    IF n = 0 THEN <<>>
    ELSE IF dispatched[n].request.id # Nil /\ dispatched[n].response # Nil
         THEN Append(Responses(dispatched, n - 1), Written(n, dispatched[n].response))
         ELSE Responses(dispatched, n - 1)
\* Mutant: the batch is always answered with the array of its responses.
handleBatchRequest_AlwaysArray(s, h, orders, batch) ==
    LET d == Dispatch(s, h, orders, batch)
    IN  [s |-> d.s, hist |-> d.hist, dispatched |-> d.dispatched,
         out |-> Responses(d.dispatched, Len(d.dispatched)),
         http |-> [status |-> 200, contentType |-> "application/json",
                   array |-> TRUE]]
\* Mutant: every element is dispatched on the server as the batch found it;
\* what an element changes is not seen by the elements after it.
handleBatchRequest_EachFromStart(s, h, orders, batch) ==
    LET d == Dispatch(s, h, orders, batch)
        alone == [i \in DOMAIN batch |->
                     Dispatch(s, h, <<orders[i]>>, <<batch[i]>>).dispatched[1]]
        hasRequests == \E i \in DOMAIN batch : batch[i].id # Nil
    IN  IF ~hasRequests
        THEN [s |-> d.s, hist |-> d.hist, dispatched |-> alone, out |-> <<>>,
              http |-> [status |-> 202, contentType |-> "", array |-> FALSE]]
        ELSE [s |-> d.s, hist |-> d.hist, dispatched |-> alone,
              out |-> Responses(alone, Len(alone)),
              http |-> [status |-> 200, contentType |-> "application/json",
                        array |-> TRUE]]

handleBatchRequest(s, h, orders, batch) ==
    LET d == Dispatch(s, h, orders, batch)
        hasRequests == \E i \in DOMAIN batch : batch[i].id # Nil
    IN  IF ~hasRequests
        THEN [s |-> d.s, hist |-> d.hist, dispatched |-> d.dispatched, out |-> <<>>,
              http |-> [status |-> 202, contentType |-> "", array |-> FALSE]]
        ELSE [s |-> d.s, hist |-> d.hist, dispatched |-> d.dispatched,
              out |-> Responses(d.dispatched, Len(d.dispatched)),
              http |-> [status |-> 200, contentType |-> "application/json",
                        array |-> TRUE]]
\* Mutant: the status is left as it is (200) when the error is written.
sendJSONError_NoStatus(s, h, id, code, message, data) ==
    [s |-> s, hist |-> h, dispatched |-> <<>>,
     out |-> <<Written(0, errorResponse(id, code, message, data))>>,
     http |-> [status |-> 200, contentType |-> "application/json", array |-> FALSE]]

sendJSONError(s, h, id, code, message, data) ==
    [s |-> s, hist |-> h, dispatched |-> <<>>,
     out |-> <<Written(0, errorResponse(id, code, message, data))>>,
     http |-> [status |-> 400, contentType |-> "application/json", array |-> FALSE]]
\* Mutant: when an array fails to parse as a batch, its first element is
\* dispatched if it is a message, and then the parse error is sent.
handleJSONRPC_LeadingDispatched(s, h, orders, body) ==
    LET single == UnmarshalRequest(body)
        batch == UnmarshalBatch(body)
        any == CHOOSE o \in Perms(DOMAIN s.promptRegistry.prompts) : TRUE
        lead == IF body.k = "array" /\ body.e # <<>> /\ ~UnmarshalRequest(body.e[1]).err
                THEN <<UnmarshalRequest(body.e[1]).request>> ELSE <<>>
        d == Dispatch(s, h, [i \in DOMAIN lead |-> any], lead)
    IN  IF ~single.err THEN handleSingleRequest(s, h, orders, single.request)
        ELSE IF ~batch.err THEN handleBatchRequest(s, h, orders, batch.batch)
        ELSE [s |-> d.s, hist |-> d.hist, dispatched |-> d.dispatched,
              out |-> <<Written(0, ParseError)>>,
              http |-> [status |-> 400, contentType |-> "application/json",
                        array |-> FALSE]]

handleJSONRPC(s, h, orders, body) ==
    LET single == UnmarshalRequest(body)
        batch == UnmarshalBatch(body)
    IN  IF ~single.err THEN handleSingleRequest(s, h, orders, single.request)
        ELSE IF ~batch.err THEN handleBatchRequest(s, h, orders, batch.batch)
        ELSE sendJSONError(s, h, Nil, -32700, "Parse error", Nil)
\* Mutant: every method but GET is served as a POST.
HTTPHandler_AnyMethodPosts(s, h, orders, method, body) ==
    handleJSONRPC(s, h, orders, body)

\* HTTPHandler for POST and for the methods answered 405; GET (the event
\* stream of handleSSEStream) dispatches nothing and is not among the inputs.
HTTPHandler(s, h, orders, method, body) ==
    IF method = "POST" THEN handleJSONRPC(s, h, orders, body)
    ELSE [s |-> s, hist |-> h, dispatched |-> <<>>, out |-> <<>>,
          http |-> [status |-> 405, contentType |-> "text/plain; charset=utf-8",
                    array |-> FALSE]]

(***************************************************************************)
(* Inputs.                                                                 *)
(***************************************************************************)
\* The constructor arguments of the servers considered.
ServerConfigs == {<<"test-server", "1.0.0">>}

\* A request as a client encodes it: absent id and params are left out.
Wire(id, method, params) ==
    JObj(CASE id = Nil /\ params = Nil ->
                [jsonrpc |-> JStr("2.0"), method |-> JStr(method)]
           [] id = Nil /\ params # Nil ->
                [jsonrpc |-> JStr("2.0"), method |-> JStr(method), params |-> params]
           [] id # Nil /\ params = Nil ->
                [jsonrpc |-> JStr("2.0"), id |-> id, method |-> JStr(method)]
           [] OTHER ->
                [jsonrpc |-> JStr("2.0"), id |-> id, method |-> JStr(method),
                 params |-> params])

Ids == {Nil, JStr("1")}

InitializeParamValues ==
    {Nil, JStr("invalid params"), JNum("7"), JBool(TRUE), JArr(<<>>),
     JObj([protocolVersion |-> JStr("2025-03-26"), capabilities |-> JObj(<<>>),
           clientInfo |-> JObj([name |-> JStr("x"), version |-> JStr("1")])]),
     JObj([protocolVersion |-> JStr("2024-11-05")]),
     JObj([protocolVersion |-> JNum("1")])}

GetPromptParamValues ==
    {Nil, JStr("p"), JArr(<<>>), JObj(<<>>), JObj([name |-> JNull]),
     JObj([name |-> JStr("p")]), JObj([name |-> JStr("missing")]),
     JObj([name |-> JStr("p"), arguments |-> JObj([who |-> JNull])]),
     JObj([name |-> JStr("q"), arguments |-> JObj([who |-> JStr("World")])]),
     JObj([name |-> JStr("p"), arguments |-> JObj([who |-> JNum("1")])])}

Methods == {"initialize", "initialized", "prompts/list", "prompts/get", "unknown/method"}

Messages ==
    {Wire(JStr("1"), "initialize", params) : params \in InitializeParamValues}
    \cup {Wire(JStr("1"), "prompts/get", params) : params \in GetPromptParamValues}
    \cup {Wire(id, method, Nil) : id \in Ids, method \in Methods}
    \cup {Wire(JNum("2"), "prompts/list", Nil),
          Wire(JNum("9007199254740993"), "prompts/list", Nil),
          Wire(Nil, "initialize", JStr("invalid params")),
          Wire(Nil, "prompts/get", JObj([name |-> JStr("p")]))}

\* Bodies that are no well-formed request: not JSON, not an object, an object
\* without members, a method that is no string, an array with an element
\* that is no object.
Malformed ==
    {Garbage, JNull, JStr("x"), JObj(<<>>),
     JObj([jsonrpc |-> JStr("2.0"), id |-> JStr("1"), method |-> JNum("1")]),
     JArr(<<Wire(Nil, "initialized", Nil), JNum("7")>>)}

BatchElements ==
    {Wire(Nil, "initialized", Nil),
     Wire(Nil, "prompts/get", JObj([name |-> JStr("p")])),
     Wire(JStr("1"), "prompts/list", Nil)}

Batches == {JArr(e) : e \in UNION {[1..n -> BatchElements] : n \in 0..MaxBatch}}

Bodies == Messages \cup Malformed \cup Batches

Lines == Messages \cup Malformed \cup {EmptyLine}

\* The HTTP requests served: any body POSTed, and two other methods, one of
\* them with a body that would open the session if it were dispatched.
HTTPRequests ==
    {<<"POST", body>> : body \in Bodies}
    \cup {<<"PUT", JObj(<<>>)>>, <<"DELETE", Wire(Nil, "initialized", Nil)>>}

\* The requests the line transport dispatches for a line.
LineRequests(line) ==
    LET parsed == UnmarshalRequest(line)
    IN  IF line # EmptyLine /\ ~parsed.err THEN <<parsed.request>> ELSE <<>>

\* The requests the HTTP transport dispatches for a body.
BodyRequests(method, body) ==
    LET single == UnmarshalRequest(body)
        batch == UnmarshalBatch(body)
    IN  IF method # "POST" THEN <<>>
        ELSE IF ~single.err THEN <<single.request>>
        ELSE IF ~batch.err THEN batch.batch
        ELSE <<>>

\* The map iteration orders that the dispatches of reqs may meet.  Only a
\* prompts/list that passes the handshake gate ranges over the map; for the
\* other dispatches one order stands for all.
OrdersFor(s, reqs) ==
    LET perms == Perms(DOMAIN s.promptRegistry.prompts)
        any == CHOOSE p \in perms : TRUE
        ranges(i) == /\ reqs[i].method = "prompts/list"
                     /\ \/ s.initialized
                        \/ \E j \in 1..(i - 1) : reqs[j].method = "initialized"
    IN  {o \in [DOMAIN reqs -> perms] : \A i \in DOMAIN reqs : ~ranges(i) => o[i] = any}

\* What a transport call received: the HTTP method ("" on the line
\* transport) and the body or line.
Received(method, body) == [method |-> method, body |-> body]

NoInput == Received("", Nil)

(***************************************************************************)
(* Concurrent HTTP handlers and the loop of Run, before they start.        *)
(***************************************************************************)
\* Connections served at the same time.
Conns == 1..MaxConns

\* A connection on which no handler runs; sentInitialized tells whether an
\* `initialized` message of this connection's client has been dispatched.
IdleConn == [pc |-> "idle", sentInitialized |-> FALSE]

\* Run has not been called.
NotRunning == [pc |-> "not running"]

\* No call has been made on a registry or a content handler directly.
NoDirect == [registry |-> NewPromptRegistry, log |-> <<>>, handler |-> Nil]

(***************************************************************************)
(* The state machine.                                                      *)
(***************************************************************************)
VARIABLES
    server,      \* the Server
    hist,        \* history of all dispatches so far
    transport,   \* the last call: "none", "register", "stdio" or "http"
    dispatched,  \* the dispatches of the last transport call
    out,         \* the envelopes the last transport call wrote
    http,        \* the status line of the last HTTP call
    input,       \* what the last transport call received
    conns,       \* the HTTP handlers running concurrently, by connection
    published,   \* the session flag as the handlers that returned left it
    loop,        \* the loop of Run: its position, its streams, its result
    direct       \* calls made on a registry and on a content handler directly

vars == <<server, hist, transport, dispatched, out, http, input,
          conns, published, loop, direct>>

Init ==
    /\ \E c \in ServerConfigs : server = NewServer(c[1], c[2])
    /\ hist = NoHistory
    /\ transport = "none"
    /\ dispatched = <<>>
    /\ out = <<>>
    /\ http = NoHTTP
    /\ input = NoInput
    /\ conns = [c \in Conns |-> IdleConn]
    /\ published = FALSE
    /\ loop = NotRunning
    /\ direct = NoDirect

\* A step of the transports taken call by call: no handler runs beside it
\* and the loop of Run is not followed line by line.
Sequential == UNCHANGED <<conns, published, loop, direct>>

\* server.RegisterPrompt(prompt, handler)
CallRegisterPrompt ==
    \E name \in PromptNames, handler \in Handlers :
        /\ server' = RegisterPrompt(server, Prompt(name), handler)
        /\ transport' = "register"
        /\ dispatched' = <<>>
        /\ out' = <<>>
        /\ http' = NoHTTP
        /\ input' = NoInput
        /\ UNCHANGED hist
        /\ Sequential

Effect(tr, r) ==
    /\ server' = r.s
    /\ hist' = r.hist
    /\ transport' = tr
    /\ dispatched' = r.dispatched
    /\ out' = r.out
    /\ http' = r.http

\* The loop of Run reads one line from standard input.
ReadLine ==
    \E line \in Lines :
        \E orders \in OrdersFor(server, LineRequests(line)) :
            /\ Effect("stdio", Run(server, hist, orders, line))
            /\ input' = Received("", line)
            /\ Sequential

\* The HTTP handler serves one request.
ServeHTTP ==
    \E r \in HTTPRequests :
        \E orders \in OrdersFor(server, BodyRequests(r[1], r[2])) :
            /\ Effect("http", HTTPHandler(server, hist, orders, r[1], r[2]))
            /\ input' = Received(r[1], r[2])
            /\ Sequential

Next == CallRegisterPrompt \/ ReadLine \/ ServeHTTP

Spec == Init /\ [][Next]_vars

(***************************************************************************)
(* The HTTP transport serving batches only: one element with an id for     *)
(* each method, and two notifications.                                     *)
(***************************************************************************)
MixedBatchElements ==
    {Wire(Nil, "initialized", Nil),
     Wire(Nil, "prompts/list", Nil),
     Wire(JStr("a"), "initialize", Nil),
     Wire(JStr("b"), "initialized", Nil),
     Wire(JStr("c"), "prompts/list", Nil),
     Wire(JStr("d"), "prompts/get", JObj([name |-> JStr("p")])),
     Wire(JStr("e"), "unknown/method", Nil)}

\* A prompts/list request on either side of an `initialized` notification.
OrderedBatch ==
    JArr(<<Wire(JStr("c"), "prompts/list", Nil),
           Wire(Nil, "initialized", Nil),
           Wire(JStr("f"), "prompts/list", Nil)>>)

MixedBatches ==
    {JArr(e) : e \in UNION {[1..n -> MixedBatchElements] : n \in 0..MaxBatch}}
    \cup {OrderedBatch}

\* server.RegisterPrompt for the prompt p, with a handler that returns a
\* result.
RegisterTestPrompt ==
    /\ server' = RegisterPrompt(server, Prompt("p"), "ok")
    /\ transport' = "register"
    /\ dispatched' = <<>>
    /\ out' = <<>>
    /\ http' = NoHTTP
    /\ input' = NoInput
    /\ UNCHANGED hist
    /\ Sequential

\* The HTTP handler serves one POST whose body is a batch.
ServeBatch ==
    \E body \in MixedBatches :
        \E orders \in OrdersFor(server, BodyRequests("POST", body)) :
            /\ Effect("http", HTTPHandler(server, hist, orders, "POST", body))
            /\ input' = Received("POST", body)
            /\ Sequential

NextBatch == RegisterTestPrompt \/ ServeBatch

SpecBatch == Init /\ [][NextBatch]_vars

(***************************************************************************)
(* HTTP handlers running concurrently.  net/http runs the handler of each  *)
(* connection in a goroutine of its own; the handlers share the Server.    *)
(* A handler's access to the session flag is ordered after the accesses of *)
(* the handlers that had returned when it was accepted, and is ordered     *)
(* with no other: the Server has no lock and the flag is a plain bool.     *)
(***************************************************************************)
\* The headers handleSSEStream sets before it flushes.
SSEHeaders ==
    [contentType |-> "text/event-stream", cacheControl |-> "no-cache",
     connection |-> "keep-alive"]

\* Mutant: the stream handler returns as soon as the headers are flushed.
StreamMayReturn_AtOnce(conn) == TRUE

\* <-r.Context().Done(): the receive returns once the context is cancelled.
StreamMayReturn(conn) == conn.cancelled

\* The messages POSTed on the connections.
ConcurrentMessages ==
    {Wire(Nil, "initialized", Nil),
     Wire(JStr("1"), "prompts/list", Nil),
     Wire(JStr("2"), "prompts/get", JObj([name |-> JStr("p")]))}

\* How handleRequest touches s.initialized for a request.
FlagAccess(request) ==
    CASE request.method = "initialized" -> "write"
      [] request.method \in {"prompts/list", "prompts/get"} -> "read"
      [] OTHER -> "none"

\* The values a read of the flag may give to a handler accepted when the
\* flag was published as base, while the memory holds flag: without
\* synchronization a write by a handler running beside it may or may not be
\* seen.
FlagReads(base, flag) == {base, flag}

\* The server accepts a request on a connection and starts its handler: a
\* GET sets the stream headers and waits, a POST has its message parsed.
\* (others: the other connections whose `initialized` had been dispatched.)
Accept(c) ==
    /\ conns[c].pc \in {"idle", "done"}
    /\ \/ conns' = [conns EXCEPT ![c] =
                       [pc |-> "stream", method |-> "GET", headers |-> SSEHeaders,
                        cancelled |-> FALSE,
                        sentInitialized |-> conns[c].sentInitialized]]
       \/ \E body \in ConcurrentMessages :
             conns' = [conns EXCEPT ![c] =
                          [pc |-> "dispatch", method |-> "POST",
                           request |-> UnmarshalRequest(body).request,
                           base |-> published,
                           others |-> {d \in Conns \ {c} : conns[d].sentInitialized},
                           sentInitialized |-> conns[c].sentInitialized]]
    /\ UNCHANGED <<server, hist, transport, dispatched, out, http, input,
                   published, loop, direct>>

\* The context of a GET request is cancelled (the client went away).
CancelRequest(c) ==
    /\ conns[c].pc = "stream"
    /\ ~conns[c].cancelled
    /\ conns' = [conns EXCEPT ![c].cancelled = TRUE]
    /\ UNCHANGED <<server, hist, transport, dispatched, out, http, input,
                   published, loop, direct>>

\* handleSSEStream returns.
StreamReturn(c) ==
    /\ conns[c].pc = "stream"
    /\ StreamMayReturn(conns[c])
    /\ conns' = [conns EXCEPT ![c].pc = "done"]
    /\ UNCHANGED <<server, hist, transport, dispatched, out, http, input,
                   published, loop, direct>>
\* Mutant: the flag is kept for each connection; an `initialized` message
\* sets it for the requests of its own connection only.
ServeMessage_OwnFlag(c) ==
    /\ conns[c].pc = "dispatch"
    /\ LET request == conns[c].request
           seen == [server EXCEPT !.initialized = conns[c].sentInitialized]
           order == CHOOSE o \in Perms(DOMAIN server.promptRegistry.prompts) : TRUE
           r == handleRequest(seen, order, request)
       IN  /\ conns' = [conns EXCEPT ![c] =
                           [pc |-> "done", method |-> "POST", request |-> request,
                            base |-> conns[c].base,
                            others |-> conns[c].others,
                            sentInitialized |-> (conns[c].sentInitialized
                                                 \/ request.method = "initialized"),
                            flagAtRead |-> server.initialized,
                            read |-> conns[c].sentInitialized,
                            response |-> r.response]]
           /\ server' = IF FlagAccess(request) = "write"
                        THEN [server EXCEPT !.initialized = r.s.initialized]
                        ELSE server
           /\ published' = (published \/ (FlagAccess(request) = "write"
                                           /\ r.s.initialized))
    /\ UNCHANGED <<hist, transport, dispatched, out, http, input, loop, direct>>

\* handleSingleRequest for the message of a POST: handleRequest runs on the
\* flag value the handler reads, a write goes to the shared Server, the
\* response is written and the handler returns.
ServeMessage(c) ==
    /\ conns[c].pc = "dispatch"
    /\ \E read \in FlagReads(conns[c].base, server.initialized) :
          LET request == conns[c].request
              seen == [server EXCEPT !.initialized = read]
              order == CHOOSE o \in Perms(DOMAIN server.promptRegistry.prompts) : TRUE
              r == handleRequest(seen, order, request)
          IN  /\ conns' = [conns EXCEPT ![c] =
                              [pc |-> "done", method |-> "POST", request |-> request,
                               base |-> conns[c].base,
                               others |-> conns[c].others,
                               sentInitialized |-> (conns[c].sentInitialized
                                                    \/ request.method = "initialized"),
                               flagAtRead |-> server.initialized,
                               read |-> read,
                               response |-> r.response]]
              /\ server' = IF FlagAccess(request) = "write"
                           THEN [server EXCEPT !.initialized = r.s.initialized]
                           ELSE server
              /\ published' = (published \/ (FlagAccess(request) = "write"
                                              /\ r.s.initialized))
    /\ UNCHANGED <<hist, transport, dispatched, out, http, input, loop, direct>>

NextConcurrent ==
    \E c \in Conns :
        Accept(c) \/ CancelRequest(c) \/ StreamReturn(c) \/ ServeMessage(c)

\* A handler blocked in a channel receive is woken once the channel is
\* closed, and the scheduler runs every runnable goroutine.
SpecConcurrent ==
    Init /\ [][NextConcurrent]_vars /\ \A c \in Conns : WF_vars(StreamReturn(c))

(***************************************************************************)
(* The loop of Run, statement by statement: the select on the context, the *)
(* blocking scanner.Scan(), and the handling of the line read.  Standard   *)
(* input delivers an item when its writer chooses to; the loop is the only *)
(* reader and the only writer of standard output.                          *)
(***************************************************************************)
\* The lines written to standard input while Run is followed.
RunLines ==
    {EmptyLine, Garbage,
     Wire(Nil, "initialized", Nil),
     Wire(JStr("1"), "prompts/list", Nil),
     Wire(JStr("2"), "initialized", Nil)}

\* What scanner.Scan() may find on standard input: a line that fits the
\* scanner's buffer, a line longer than the buffer (bufio.MaxScanTokenSize,
\* 64 KiB), the end of the stream, or a failure of the read.
StdinItems ==
    {[k |-> "line", line |-> l] : l \in RunLines}
    \cup {[k |-> "toolong"], [k |-> "eof"], [k |-> "error"]}

\* ctx.Err() of a cancelled context.
ContextCanceled == JStr("context canceled")

\* What scanner.Err() gives after a Scan that returned false.
ScannerErr(item) ==
    CASE item.k = "toolong" -> JStr("bufio.Scanner: token too long")
      [] item.k = "error" -> JStr("read failed")
      [] OTHER -> Nil

\* Mutant: Run returns nil when the context is cancelled.
RunResultOnCancel_Nil(ctx) == Nil

\* case <-ctx.Done(): return ctx.Err()
RunResultOnCancel(ctx) == IF ctx.cancelled THEN ContextCanceled ELSE Nil

\* The value Run returns when Scan returned false.
RunResultOnScanEnd(item) ==
    IF ScannerErr(item) # Nil
    THEN JStr("error reading from stdin: " \o ScannerErr(item).s)
    ELSE Nil

\* Run is called.
CallRun ==
    /\ loop = NotRunning
    /\ loop' = [pc |-> "select", cancelled |-> FALSE, stdin |-> <<>>,
                lines |-> <<>>, stdout |-> <<>>, ended |-> "", result |-> Nil]
    /\ UNCHANGED <<server, hist, transport, dispatched, out, http, input,
                   conns, published, direct>>

\* The context passed to Run is cancelled.
CancelRun ==
    /\ loop.pc \in {"select", "scan", "handle"}
    /\ ~loop.cancelled
    /\ loop' = [loop EXCEPT !.cancelled = TRUE]
    /\ UNCHANGED <<server, hist, transport, dispatched, out, http, input,
                   conns, published, direct>>

\* The writer of standard input writes a line, closes the stream, or the
\* stream fails.  (One item at a time is held back for the loop to read.)
Arrive ==
    /\ loop.pc \in {"select", "scan", "handle"}
    /\ loop.stdin = <<>>
    /\ \E item \in StdinItems :
          /\ item.k = "line" => Len(loop.lines) < MaxLines
          /\ loop' = [loop EXCEPT !.stdin = <<item>>]
    /\ UNCHANGED <<server, hist, transport, dispatched, out, http, input,
                   conns, published, direct>>

\* The select at the top of the loop: the context's Done channel if it is
\* closed, the default case otherwise.
Select ==
    /\ loop.pc = "select"
    /\ loop' = IF loop.cancelled
               THEN [loop EXCEPT !.pc = "returned", !.ended = "cancelled",
                                 !.result = RunResultOnCancel(loop)]
               ELSE [loop EXCEPT !.pc = "scan"]
    /\ UNCHANGED <<server, hist, transport, dispatched, out, http, input,
                   conns, published, direct>>

\* scanner.Scan() returns: it blocks until standard input has an item.
Scan ==
    /\ loop.pc = "scan"
    /\ loop.stdin # <<>>
    /\ LET item == Head(loop.stdin)
       IN  loop' = IF item.k = "line"
                   THEN [loop EXCEPT !.pc = "handle", !.stdin = <<>>,
                                     !.lines = Append(@, item.line)]
                   ELSE [loop EXCEPT !.pc = "returned", !.stdin = <<>>,
                                     !.ended = item.k,
                                     !.result = RunResultOnScanEnd(item)]
    /\ UNCHANGED <<server, hist, transport, dispatched, out, http, input,
                   conns, published, direct>>

\* The rest of the loop body for the line read: parse, dispatch, write.
Handle ==
    /\ loop.pc = "handle"
    /\ LET line == loop.lines[Len(loop.lines)]
       IN  \E orders \in OrdersFor(server, LineRequests(line)) :
              LET r == Run(server, hist, orders, line)
              IN  /\ Effect("stdio", r)
                  /\ input' = Received("", line)
                  /\ loop' = [loop EXCEPT
                                 !.pc = "select",
                                 !.stdout = @ \o [i \in DOMAIN r.out |->
                                                     [line |-> Len(loop.lines),
                                                      envelope |-> r.out[i].envelope]]]
    /\ UNCHANGED <<conns, published, direct>>

NextRun == CallRun \/ CancelRun \/ Arrive \/ Select \/ Scan \/ Handle

SpecRun == Init /\ [][NextRun]_vars

(***************************************************************************)
(* The registry called directly, as a package's user or a test calls it:   *)
(* Register and Execute in any order, each call and what it returned kept  *)
(* in a log.                                                               *)
(***************************************************************************)
\* Names Execute is called with: the registered ones and one never registered.
ExecuteNames == PromptNames \cup {"unknown"}

\* Argument maps Execute is called with: a nil map and a map with one entry.
ArgumentMaps == {Nil, [name |-> "World"]}

\* registry.Register(prompt, handler)
CallRegister ==
    /\ Len(direct.log) < MaxCalls
    /\ \E name \in PromptNames, handler \in Handlers :
          direct' = [direct EXCEPT
                        !.registry = Register(@, Prompt(name), handler),
                        !.log = Append(@, [op |-> "Register", name |-> name,
                                           handler |-> handler])]
    /\ UNCHANGED <<server, hist, transport, dispatched, out, http, input,
                   conns, published, loop>>

\* registry.Execute(ctx, name, args)
CallExecute ==
    /\ Len(direct.log) < MaxCalls
    /\ \E name \in ExecuteNames, args \in ArgumentMaps :
          LET r == Execute(direct.registry, name, args)
          IN  direct' = [direct EXCEPT
                            !.log = Append(@, [op |-> "Execute", name |-> name,
                                               args |-> args,
                                               result |-> r.result,
                                               err |-> r.err,
                                               calls |-> r.calls])]
    /\ UNCHANGED <<server, hist, transport, dispatched, out, http, input,
                   conns, published, loop>>

NextRegistry == CallRegister \/ CallExecute

SpecRegistry == Init /\ [][NextRegistry]_vars

(***************************************************************************)
(* The default handler of a prompt definition (CreateHandler).  A text     *)
(* that the handler takes apart or puts together is a sequence of          *)
(* characters; braces are the characters "{" and "}".                      *)
(***************************************************************************)
\* fmt.Sprintf("{{%s}}", name)
Placeholder(name) == <<"{", "{">> \o name \o <<"}", "}">>

\* strings.HasPrefix(s, prefix)
HasPrefix(s, prefix) ==
    Len(s) >= Len(prefix) /\ SubSeq(s, 1, Len(prefix)) = prefix

RECURSIVE ReplaceAll(_, _, _)
\* strings.ReplaceAll(s, old, new) for a non-empty old: the occurrences of
\* old are found from the left and do not overlap; the text put in is not
\* searched again.
ReplaceAll(s, old, new) ==
    IF s = <<>> THEN <<>>
    ELSE IF HasPrefix(s, old)
         THEN new \o ReplaceAll(SubSeq(s, Len(old) + 1, Len(s)), old, new)
         ELSE <<Head(s)>> \o ReplaceAll(Tail(s), old, new)

\* The keys of a Go map; a nil map has none.
Keys(args) == IF args = Nil THEN {} ELSE DOMAIN args

RECURSIVE Substitute(_, _, _)
\* The loop of the handler over args: order is the order in which the range
\* visits the keys of the map.
Substitute(content, args, order) ==
    IF order = <<>> THEN content
    ELSE Substitute(ReplaceAll(content, Placeholder(Head(order)), args[Head(order)]),
                    args, Tail(order))

\* d.CreateHandler()(ctx, args): the pair (result, err) the handler returns.
CreateHandler(d, args, order) ==
    IF d.Content = <<>>
    THEN [result |-> Nil,
          err |-> JStr("no content available for prompt: " \o d.Name)]
    ELSE [result |->
              [description |-> d.Description,
               messages |-> <<[role |-> "user",
                               content |-> [type |-> "text",
                                            text |-> Substitute(d.Content, args, order)]]>>],
          err |-> Nil]

\* Names of arguments, and the values they are given: plain text, the empty
\* text, and texts that are themselves placeholders.
ArgumentNames == {<<"a">>, <<"b">>}
ArgumentValues == {<<"x">>, <<>>, Placeholder(<<"a">>), Placeholder(<<"b">>)}

\* The argument maps the handler is called with: nil, or some of the names
\* with a value each.
HandlerArguments ==
    {Nil} \cup UNION {[S -> ArgumentValues] : S \in SUBSET ArgumentNames}

\* Contents of prompt definitions: none, a text without placeholders, and
\* texts with placeholders of a, of b and of an argument never supplied.
Contents ==
    {<<>>,
     <<"h", "i">>,
     Placeholder(<<"a">>),
     Placeholder(<<"a">>) \o <<"-">> \o Placeholder(<<"b">>) \o <<"-">> \o Placeholder(<<"a">>),
     Placeholder(<<"c">>) \o Placeholder(<<"b">>)}

PromptDefinitions ==
    {[Name |-> "greeting", Description |-> "Greeting prompt", Content |-> content] :
        content \in Contents}

\* handler := def.CreateHandler(); handler(ctx, args)
CallHandler ==
    /\ \E d \in PromptDefinitions, args \in HandlerArguments :
          \E order \in Perms(Keys(args)) :
              direct' = [direct EXCEPT
                            !.handler = [def |-> d, args |-> args,
                                         first |-> CreateHandler(d, args, order),
                                         again |-> Nil]]
    /\ UNCHANGED <<server, hist, transport, dispatched, out, http, input,
                   conns, published, loop>>

\* The same handler is called once more with the same argument map.
CallHandlerAgain ==
    /\ direct.handler # Nil
    /\ \E order \in Perms(Keys(direct.handler.args)) :
          direct' = [direct EXCEPT
                        !.handler.again =
                            CreateHandler(direct.handler.def, direct.handler.args, order)]
    /\ UNCHANGED <<server, hist, transport, dispatched, out, http, input,
                   conns, published, loop>>

NextContent == CallHandler \/ CallHandlerAgain

SpecContent == Init /\ [][NextContent]_vars

(***************************************************************************)
(* A server whose prompts may include one registered under the empty name  *)
(* (a prompt file that gives no name), sent prompts/get messages with and  *)
(* without params on both transports.                                     *)
(***************************************************************************)
\* Names of the prompt definitions loaded: one of them has no name.
LoadedNames == {"", "p"}

EmptyNameMessages ==
    {Wire(Nil, "initialized", Nil),
     Wire(JStr("1"), "prompts/get", Nil),
     Wire(Nil, "prompts/get", Nil),
     Wire(JStr("1"), "prompts/get", JNull),
     Wire(JStr("1"), "prompts/get", JObj(<<>>)),
     Wire(JStr("1"), "prompts/get", JObj([name |-> JStr("p")]))}

\* server.RegisterPrompt(def.ToPrompt(), handler) for a loaded definition.
RegisterLoaded ==
    \E name \in LoadedNames, handler \in Handlers :
        /\ server' = RegisterPrompt(server, Prompt(name), handler)
        /\ transport' = "register"
        /\ dispatched' = <<>>
        /\ out' = <<>>
        /\ http' = NoHTTP
        /\ input' = NoInput
        /\ UNCHANGED hist
        /\ Sequential

\* The loop of Run reads one of the messages as a line.
ReadMessage ==
    \E line \in EmptyNameMessages :
        \E orders \in OrdersFor(server, LineRequests(line)) :
            /\ Effect("stdio", Run(server, hist, orders, line))
            /\ input' = Received("", line)
            /\ Sequential

\* The HTTP handler serves a POST of one of the messages.
PostMessage ==
    \E body \in EmptyNameMessages :
        \E orders \in OrdersFor(server, BodyRequests("POST", body)) :
            /\ Effect("http", HTTPHandler(server, hist, orders, "POST", body))
            /\ input' = Received("POST", body)
            /\ Sequential

NextEmptyName == RegisterLoaded \/ ReadMessage \/ PostMessage

SpecEmptyName == Init /\ [][NextEmptyName]_vars

(***************************************************************************)
(* Properties.                                                             *)
(***************************************************************************)
Gated == {"prompts/list", "prompts/get"}

Known == {"initialize", "initialized", "prompts/list", "prompts/get"}

\* r is an error response with this code and no result.
IsError(r, code) ==
    r # Nil /\ r.error # Nil /\ r.error.code = code /\ r.result = Nil

\* r is a response that carries a result and no error.
IsResult(r) == r # Nil /\ r.error = Nil /\ r.result # Nil

\* C1 (as claimed): no envelope is written in answer to a message without an
\* id, on the line transport and on the HTTP transport, whatever its method.
C1_NoResponseToNotification ==
    \A i \in DOMAIN out :
        out[i].from # 0 => dispatched[out[i].from].request.id # Nil

\* C2: while no `initialized` message has been dispatched, every prompts/list
\* and prompts/get is answered with error -32002 and no result.
C2_GatedBeforeInitialized ==
    \A i \in DOMAIN dispatched :
        (dispatched[i].request.method \in Gated /\ ~dispatched[i].hist.initialized)
            => IsError(dispatched[i].response, -32002)

\* A gated request refused after an initialize had already succeeded.
C2_Witness ==
    \E i \in DOMAIN dispatched :
        /\ dispatched[i].request.method = "prompts/get"
        /\ dispatched[i].request.id # Nil
        /\ ~dispatched[i].hist.initialized
        /\ dispatched[i].hist.initializeOK
        /\ IsError(dispatched[i].response, -32002)

\* C3 (as claimed): whenever the session flag is true, an initialize was
\* answered with a result earlier in the history.
C3_FlagImpliesInitializeSucceeded ==
    /\ server.initialized => hist.initializeOK
    /\ \A i \in DOMAIN dispatched :
         dispatched[i].before.initialized => dispatched[i].hist.initializeOK

\* C3 (amended): whenever the session flag is true, an `initialized` message
\* was dispatched earlier in the history.
C3_FlagImpliesInitializedDispatched ==
    /\ server.initialized => hist.initialized
    /\ \A i \in DOMAIN dispatched :
         dispatched[i].before.initialized => dispatched[i].hist.initialized

\* The flag is true although no initialize was ever answered with a result.
C3_Witness ==
    server.initialized /\ hist.initialized /\ ~hist.initializeOK

\* C4: a dispatched `initialized` leaves the session Initialized whatever came
\* before it, and a gated method is refused with -32002 exactly when the flag
\* is false at its dispatch.
C4_InitializedAloneOpensTheGate ==
    \A i \in DOMAIN dispatched :
        /\ dispatched[i].request.method = "initialized"
             => dispatched[i].after.initialized
        /\ dispatched[i].request.method \in Gated
             => (IsError(dispatched[i].response, -32002)
                    <=> ~dispatched[i].before.initialized)

\* `initialized` with no initialize before it, then a gated request served.
C4_Witness ==
    \E i, j \in DOMAIN dispatched :
        /\ i < j
        /\ dispatched[i].request.method = "initialized"
        /\ ~dispatched[i].before.initialized
        /\ ~dispatched[i].hist.initializeOK
        /\ dispatched[i].after.initialized
        /\ dispatched[j].request.method = "prompts/list"
        /\ ~dispatched[j].hist.initializeOK
        /\ IsResult(dispatched[j].response)

\* C5: the session flag starts false and, once true, stays true over every
\* step and over every dispatch within a step.
C5_FlagMonotonic ==
    /\ ~server.initialized
    /\ [][server.initialized => server'.initialized]_vars
    /\ [](\A i \in DOMAIN dispatched :
             dispatched[i].before.initialized => dispatched[i].after.initialized)

\* `initialized` dispatched again while already Initialized.
C5_Witness ==
    /\ server.initialized
    /\ \E i \in DOMAIN dispatched :
         /\ dispatched[i].before.initialized
         /\ dispatched[i].request.method = "initialized"

\* C6: a dispatch of any method but `initialized` leaves the session flag and
\* the protocol version as they were.
C6_OtherMethodsKeepSession ==
    \A i \in DOMAIN dispatched :
        dispatched[i].request.method # "initialized"
            => dispatched[i].after = dispatched[i].before

\* A successful initialize that left the session Uninitialized.
C6_Witness ==
    \E i \in DOMAIN dispatched :
        /\ dispatched[i].request.method = "initialize"
        /\ IsResult(dispatched[i].response)
        /\ ~dispatched[i].before.initialized
        /\ ~dispatched[i].after.initialized

\* C7: every successful initialize returns protocolVersion "2025-03-26", a
\* prompts capability and the name and version the server was made with; an
\* initialize without params succeeds.
C7_InitializeResult ==
    \A i \in DOMAIN dispatched :
        dispatched[i].request.method = "initialize" =>
            /\ dispatched[i].request.params = Nil => IsResult(dispatched[i].response)
            /\ IsResult(dispatched[i].response) =>
                 /\ dispatched[i].response.result.protocolVersion = "2025-03-26"
                 /\ dispatched[i].response.result.capabilities.prompts # Nil
                 /\ \E c \in ServerConfigs :
                      /\ server.name = c[1] /\ server.version = c[2]
                      /\ dispatched[i].response.result.serverInfo
                           = [name |-> c[1], version |-> c[2]]

\* A successful initialize that asked for another protocol version, while
\* Initialized.
C7_Witness ==
    \E i \in DOMAIN dispatched :
        /\ dispatched[i].request.method = "initialize"
        /\ dispatched[i].request.params = JObj([protocolVersion |-> JStr("2024-11-05")])
        /\ dispatched[i].before.initialized
        /\ IsResult(dispatched[i].response)

\* C8: initialize with params that are a string, a number, a boolean or an
\* array is answered with error -32602 and no result.
C8_InitializeInvalidParams ==
    \A i \in DOMAIN dispatched :
        (/\ dispatched[i].request.method = "initialize"
         /\ dispatched[i].request.params.k \in {"string", "number", "bool", "array"})
            => IsError(dispatched[i].response, -32602)

C8_Witness ==
    \E i \in DOMAIN dispatched :
        /\ dispatched[i].request.method = "initialize"
        /\ dispatched[i].request.params = JStr("invalid params")
        /\ dispatched[i].request.id # Nil
        /\ IsError(dispatched[i].response, -32602)

\* C9: a request with an id whose method is none of the four known ones is
\* answered with error -32601, Initialized or not.
C9_MethodNotFound ==
    \A i \in DOMAIN dispatched :
        (dispatched[i].request.id # Nil /\ dispatched[i].request.method \notin Known)
            => IsError(dispatched[i].response, -32601)

\* An unknown method answered -32601 before the handshake.
C9_Witness ==
    \E i \in DOMAIN dispatched :
        /\ dispatched[i].request.id # Nil
        /\ dispatched[i].request.method = "unknown/method"
        /\ ~dispatched[i].before.initialized
        /\ IsError(dispatched[i].response, -32601)

\* The prompts/get dispatches made while Initialized whose params decode and
\* whose lookup or handler fails, with the message of the failure.
GetFailure(d) ==
    LET p == GetPromptParamsOf(d.request)
        handlers == server.promptRegistry.handlers
    IN  IF d.request.method # "prompts/get" \/ ~d.before.initialized \/ p.err
        THEN Nil
        ELSE IF p.params.name \notin DOMAIN handlers
        THEN JStr("prompt not found: " \o p.params.name)
        ELSE IF handlers[p.params.name] = "fail" THEN JStr(HandlerError)
        ELSE Nil

\* C10 (as claimed): a prompts/get whose lookup or handler fails is answered
\* with error -32603 whose data is the message of the failure.
C10_FailureMessageAsData ==
    \A i \in DOMAIN dispatched :
        GetFailure(dispatched[i]) # Nil =>
            /\ IsError(dispatched[i].response, -32603)
            /\ dispatched[i].response.error.data = GetFailure(dispatched[i])

\* C10 (amended): a prompts/get whose lookup or handler fails is answered with
\* error -32603 whose message is the message of the failure and which has no
\* data.
C10_FailureMessageAsMessage ==
    \A i \in DOMAIN dispatched :
        GetFailure(dispatched[i]) # Nil =>
            /\ IsError(dispatched[i].response, -32603)
            /\ dispatched[i].response.error.message = GetFailure(dispatched[i]).s
            /\ dispatched[i].response.error.data = Nil

\* A registered handler failed.
C10_Witness ==
    \E i \in DOMAIN dispatched :
        /\ GetFailure(dispatched[i]) = JStr(HandlerError)
        /\ dispatched[i].request.id # Nil
        /\ IsError(dispatched[i].response, -32603)

\* C11: while Initialized, a prompts/get whose params decode and name a
\* prompt without a registered handler is answered with error -32603 and no
\* result, whatever the registry holds.
C11_UnknownPromptInternalError ==
    \A i \in DOMAIN dispatched :
        LET d == dispatched[i]
        IN  (/\ d.request.method = "prompts/get"
             /\ d.before.initialized
             /\ ~GetPromptParamsOf(d.request).err
             /\ GetPromptParamsOf(d.request).params.name
                    \notin DOMAIN server.promptRegistry.handlers)
            => IsError(d.response, -32603)

\* A lookup of "missing" in a registry that holds both p and q.
C11_Witness ==
    \E i \in DOMAIN dispatched :
        /\ dispatched[i].request.method = "prompts/get"
        /\ dispatched[i].before.initialized
        /\ ~GetPromptParamsOf(dispatched[i].request).err
        /\ GetPromptParamsOf(dispatched[i].request).params.name = "missing"
        /\ DOMAIN server.promptRegistry.handlers = PromptNames
        /\ IsError(dispatched[i].response, -32603)

\* The params v are a JSON object with a string name and, when it has an
\* arguments member, an object of strings there.
WellFormedGetParams(v) ==
    /\ v.k = "object"
    /\ Field(v, "name").k = "string"
    /\ "arguments" \in DOMAIN v.f =>
          /\ v.f["arguments"].k = "object"
          /\ \A key \in DOMAIN v.f["arguments"].f : v.f["arguments"].f[key].k = "string"

\* The params v are no JSON object, or hold a name that is neither a string
\* nor null, or arguments that are neither null nor an object whose values
\* are strings or null.
UndecodableGetParams(v) ==
    \/ v.k # "object"
    \/ Field(v, "name").k \notin {"string", "null"}
    \/ Field(v, "arguments").k \notin {"object", "null"}
    \/ /\ Field(v, "arguments").k = "object"
       /\ \E key \in DOMAIN Field(v, "arguments").f :
              Field(v, "arguments").f[key].k \notin {"string", "null"}

\* C12 (as claimed): while Initialized, a prompts/get whose params are
\* present but are not an object with a string name and string-to-string
\* arguments is answered with error -32602 and invokes no prompt handler.
C12_MalformedParamsRejected ==
    \A i \in DOMAIN dispatched :
        LET d == dispatched[i]
        IN  (/\ d.request.method = "prompts/get"
             /\ d.before.initialized
             /\ d.request.params # Nil
             /\ ~WellFormedGetParams(d.request.params))
            => (IsError(d.response, -32602) /\ d.calls = <<>>)

\* C12 (amended): while Initialized, a prompts/get whose params are present
\* is answered with error -32602, and invokes no prompt handler, exactly when
\* the params are no object or hold a member of the wrong type; a missing or
\* null name and null argument values are decoded as empty strings instead.
C12_UndecodableParamsRejected ==
    \A i \in DOMAIN dispatched :
        LET d == dispatched[i]
        IN  (/\ d.request.method = "prompts/get"
             /\ d.before.initialized
             /\ d.request.params # Nil)
            => /\ UndecodableGetParams(d.request.params)
                    => (IsError(d.response, -32602) /\ d.calls = <<>>)
               /\ ~UndecodableGetParams(d.request.params)
                    => ~IsError(d.response, -32602)

\* Arguments with a number where a string belongs, for a registered prompt:
\* rejected, and the prompt's handler did not run.
C12_Witness ==
    \E i \in DOMAIN dispatched :
        /\ dispatched[i].request.method = "prompts/get"
        /\ dispatched[i].before.initialized
        /\ dispatched[i].request.params # Nil
        /\ dispatched[i].request.params.k = "object"
        /\ Field(dispatched[i].request.params, "name") = JStr("p")
        /\ UndecodableGetParams(dispatched[i].request.params)
        /\ "p" \in DOMAIN server.promptRegistry.handlers
        /\ IsError(dispatched[i].response, -32602)
        /\ dispatched[i].calls = <<>>

\* The envelope r has exactly one of the members result and error, in the
\* Go value and in the JSON written for it.
ExactlyOneOfResultAndError(r) ==
    /\ (r.result # Nil) # (r.error # Nil)
    /\ ("result" \in DOMAIN EncodeResponse(r).f) # ("error" \in DOMAIN EncodeResponse(r).f)

\* C13: every response a dispatch returns and every envelope a transport
\* writes (parse errors included) has exactly one of result and error.
C13_ExactlyOneOfResultAndError ==
    /\ \A i \in DOMAIN dispatched :
          dispatched[i].response # Nil
              => ExactlyOneOfResultAndError(dispatched[i].response)
    /\ \A i \in DOMAIN out : ExactlyOneOfResultAndError(out[i].envelope)

\* A prompt handler returned neither a result nor an error: the envelope
\* written has a result member, which is null, and no error member.
C13_Witness ==
    \E i \in DOMAIN out :
        /\ out[i].from # 0
        /\ dispatched[out[i].from].calls # <<>>
        /\ out[i].envelope.result = TypedNil
        /\ "result" \in DOMAIN EncodeResponse(out[i].envelope).f
        /\ EncodeResponse(out[i].envelope).f["result"] = JNull
        /\ "error" \notin DOMAIN EncodeResponse(out[i].envelope).f

\* The i-th message of what the last transport call received, as sent.
ReceivedMessage(i) ==
    IF input.body.k = "array" THEN input.body.e[i] ELSE input.body

\* C14 (as claimed): every response a dispatch returns carries the id of its
\* request; every envelope written for a request that was sent with an id
\* carries that id as it was sent; a parse-error envelope carries id null.
C14_ResponseCarriesRequestId ==
    /\ \A i \in DOMAIN dispatched :
          dispatched[i].response # Nil
              => dispatched[i].response.id = dispatched[i].request.id
    /\ \A j \in DOMAIN out :
          IF out[j].from = 0
          THEN EncodeResponse(out[j].envelope).f["id"] = JNull
          ELSE dispatched[out[j].from].request.id # Nil
                  => EncodeResponse(out[j].envelope).f["id"]
                         = Field(ReceivedMessage(out[j].from), "id")

\* The same for the ids that are strings or numbers that a float64 holds
\* exactly: for these it holds.
C14_ExactIdsCarried ==
    /\ \A i \in DOMAIN dispatched :
          dispatched[i].response # Nil
              => dispatched[i].response.id = dispatched[i].request.id
    /\ \A j \in DOMAIN out :
          IF out[j].from = 0
          THEN EncodeResponse(out[j].envelope).f["id"] = JNull
          ELSE (/\ dispatched[out[j].from].request.id # Nil
                /\ Field(ReceivedMessage(out[j].from), "id") # JNum("9007199254740993"))
                  => EncodeResponse(out[j].envelope).f["id"]
                         = Field(ReceivedMessage(out[j].from), "id")

\* The dispatches of the last call that are a prompts/list answered while
\* Initialized.
ListDispatches ==
    {i \in DOMAIN dispatched : /\ dispatched[i].request.method = "prompts/list"
                               /\ dispatched[i].before.initialized}

\* The set of prompts that the i-th dispatch of the last call returned.
Listed(i) ==
    {dispatched[i].response.result.prompts[n] :
         n \in DOMAIN dispatched[i].response.result.prompts}

\* Every prompts/list of the last call returned one entry per registered
\* name, the metadata registered under it, with none missing and none twice.
ListedIsRegistered ==
    \A i \in ListDispatches :
        LET r == dispatched[i].response
            registered == server.promptRegistry.prompts
        IN  /\ IsResult(r)
            /\ Len(r.result.prompts) = Cardinality(DOMAIN registered)
            /\ {r.result.prompts[n].name : n \in DOMAIN r.result.prompts}
                   = DOMAIN registered
            /\ Listed(i) = {registered[name] : name \in DOMAIN registered}

\* A prompts/list of this call and one of the next call, which is no
\* registration, returned the same set.
ListedAgainTheSame ==
    \A i \in ListDispatches : \A j \in ListDispatches' : Listed(i) = Listed(j)'

\* C15: while Initialized, prompts/list returns exactly the set of prompts
\* registered (one entry per name, none missing, none twice), and repeated
\* calls, in one batch or in calls that follow each other with no
\* registration between them, return the same set.
C15_ListIsTheRegisteredSet ==
    /\ [](ListedIsRegistered /\ \A i, j \in ListDispatches : Listed(i) = Listed(j))
    /\ [][ListedAgainTheSame]_vars

\* Two prompts/list calls in one batch, with both p and q registered, that
\* list them in different orders.
C15_Witness ==
    \E i, j \in ListDispatches :
        /\ DOMAIN server.promptRegistry.prompts = PromptNames
        /\ Len(dispatched[i].response.result.prompts) = 2
        /\ dispatched[i].response.result.prompts
               # dispatched[j].response.result.prompts

\* The last call was a POST whose body was taken as a batch.
PostedBatch ==
    /\ transport = "http"
    /\ input.method = "POST"
    /\ UnmarshalRequest(input.body).err
    /\ ~UnmarshalBatch(input.body).err

\* The places in the posted batch of the elements that carry an id.
WithId == {i \in DOMAIN input.body.e : Field(input.body.e[i], "id") # JNull}

\* The written envelopes answer exactly the batch elements at the places
\* in S, one envelope each, in the order of the elements.
AnswersInOrder(S) ==
    /\ Len(out) = Cardinality(S)
    /\ {out[j].from : j \in DOMAIN out} = S
    /\ \A j, k \in DOMAIN out : j < k => out[j].from < out[k].from
    /\ \A j \in DOMAIN out :
          /\ out[j].envelope = dispatched[out[j].from].response
          /\ EncodeResponse(out[j].envelope).f["id"]
                 = Field(input.body.e[out[j].from], "id")

\* C16 (as claimed): a POSTed batch with an element that carries an id is
\* answered 200 with a JSON array of exactly one response per element with
\* an id, in the order of those elements, whatever methods they name.
C16_OneResponsePerIdElement ==
    (PostedBatch /\ WithId # {})
        => /\ http.status = 200
           /\ http.array
           /\ AnswersInOrder(WithId)

\* The same with the elements that name `initialized` left out of the
\* elements answered: this holds.
C16_OneResponsePerIdElementButInitialized ==
    (PostedBatch /\ WithId # {})
        => /\ http.status = 200
           /\ http.array
           /\ AnswersInOrder({i \in WithId :
                                 Field(input.body.e[i], "method") # JStr("initialized")})

\* The last call was a POST whose body was taken as a single message.
PostedSingle ==
    /\ transport = "http"
    /\ input.method = "POST"
    /\ ~UnmarshalRequest(input.body).err

\* C17 (as claimed): a POSTed single message with an id is answered 200 with
\* Content-Type application/json and a body that is the response envelope
\* for it, whatever its method and in either session state.
C17_SingleRequestAnswered ==
    (PostedSingle /\ dispatched[1].request.id # Nil)
        => /\ http.status = 200
           /\ http.contentType = "application/json"
           /\ ~http.array
           /\ Len(out) = 1
           /\ out[1].from = 1
           /\ out[1].envelope = dispatched[1].response
           /\ out[1].envelope.id = dispatched[1].request.id

\* The same for every method but `initialized`: this holds.
C17_SingleRequestAnsweredButInitialized ==
    (/\ PostedSingle
     /\ dispatched[1].request.id # Nil
     /\ dispatched[1].request.method # "initialized")
        => /\ http.status = 200
           /\ http.contentType = "application/json"
           /\ ~http.array
           /\ Len(out) = 1
           /\ out[1].from = 1
           /\ out[1].envelope = dispatched[1].response
           /\ out[1].envelope.id = dispatched[1].request.id

\* The last call was a POST of a single message without an id.
PostedNotification ==
    /\ PostedSingle
    /\ UnmarshalRequest(input.body).request.id = Nil

\* C18: a POSTed single notification is answered 202 with an empty body and
\* is dispatched all the same; once an `initialized` notification was
\* POSTed the session is Initialized, in that call and in every later one,
\* where no gated request is refused any more.
C18_NotificationAcceptedAndDispatched ==
    /\ PostedNotification
          => /\ http.status = 202
             /\ out = <<>>
             /\ Len(dispatched) = 1
             /\ dispatched[1].request = UnmarshalRequest(input.body).request
             /\ dispatched[1].request.method = "initialized" => server.initialized
    /\ hist.initialized => server.initialized
    /\ \A i \in DOMAIN dispatched :
          (dispatched[i].hist.initialized /\ dispatched[i].request.method \in Gated)
              => ~IsError(dispatched[i].response, -32002)

\* An `initialized` notification POSTed to an Uninitialized server: 202, no
\* body, and the session is Initialized.
C18_Witness ==
    /\ PostedNotification
    /\ dispatched[1].request.method = "initialized"
    /\ ~dispatched[1].before.initialized
    /\ http.status = 202
    /\ out = <<>>
    /\ server.initialized

\* A later call, after an `initialized` was POSTed: a prompts/list with an id
\* is answered with a result.
C18_WitnessLater ==
    /\ PostedSingle
    /\ dispatched[1].hist.initialized
    /\ dispatched[1].request.method = "prompts/list"
    /\ IsResult(dispatched[1].response)

\* C19: a POSTed batch in which no element carries an id, the empty batch
\* included, is answered 202 with an empty body, and every element was
\* dispatched, in order.
C19_NotificationBatchAccepted ==
    (PostedBatch /\ WithId = {})
        => /\ http.status = 202
           /\ out = <<>>
           /\ Len(dispatched) = Len(input.body.e)
           /\ \A i \in DOMAIN dispatched :
                 dispatched[i].request = UnmarshalRequest(input.body.e[i]).request

\* A batch of two notifications, the first an `initialized` sent to an
\* Uninitialized server: 202, and the second was dispatched Initialized.
C19_Witness ==
    /\ PostedBatch
    /\ WithId = {}
    /\ Len(input.body.e) = 2
    /\ http.status = 202
    /\ ~dispatched[1].before.initialized
    /\ dispatched[2].before.initialized
    /\ dispatched[2].request.method = "prompts/get"

\* The empty batch: 202 and nothing dispatched.
C19_WitnessEmpty ==
    PostedBatch /\ input.body.e = <<>> /\ http.status = 202 /\ dispatched = <<>>

\* C20: a POST whose body parses neither as a request object nor as an
\* array of request objects is answered 400 with one envelope that has
\* error code -32700, id null and no result; nothing is dispatched.
C20_UnparseableBodyRejected ==
    (/\ transport = "http"
     /\ input.method = "POST"
     /\ UnmarshalRequest(input.body).err
     /\ UnmarshalBatch(input.body).err)
        => /\ http.status = 400
           /\ dispatched = <<>>
           /\ Len(out) = 1
           /\ IsError(out[1].envelope, -32700)
           /\ EncodeResponse(out[1].envelope).f["id"] = JNull
           /\ "result" \notin DOMAIN EncodeResponse(out[1].envelope).f

\* A body that is JSON, but neither an object nor an array, answered 400.
C20_Witness ==
    /\ transport = "http"
    /\ input = Received("POST", JStr("x"))
    /\ http.status = 400
    /\ Len(out) = 1
    /\ IsError(out[1].envelope, -32700)
    /\ out[1].envelope.id = Nil

\* The last call was an HTTP request with a method other than GET and POST.
OtherMethod == transport = "http" /\ input.method \notin {"GET", "POST"}

\* C21: an HTTP request with a method other than GET and POST is answered
\* 405; it dispatches nothing, writes no envelope and leaves the server, the
\* session flag included, as it was.
C21_OtherMethodsNotAllowed ==
    /\ [](OtherMethod => (http.status = 405 /\ dispatched = <<>> /\ out = <<>>))
    /\ [][OtherMethod' => (server' = server /\ hist' = hist)]_vars

\* A DELETE that carries an `initialized` message, sent to an Uninitialized
\* server: 405, and the server is still Uninitialized.
C21_Witness ==
    /\ OtherMethod
    /\ input.body = Wire(Nil, "initialized", Nil)
    /\ http.status = 405
    /\ ~server.initialized

\* C22: a GET sets the event-stream headers; its handler returns only once
\* the request's context is cancelled, and once it is cancelled the handler
\* does return; no step of a stream handler changes the server.
C22_StreamHeldUntilCancelled ==
    /\ [](\A c \in Conns :
            conns[c].pc \in {"stream", "done"} /\ conns[c].method = "GET"
                => /\ conns[c].headers.contentType = "text/event-stream"
                   /\ conns[c].headers.cacheControl = "no-cache"
                   /\ conns[c].headers.connection = "keep-alive"
                   /\ conns[c].pc = "done" => conns[c].cancelled)
    /\ [][\A c \in Conns :
            (conns[c].pc = "stream" \/ conns'[c].pc = "stream")
            /\ conns'[c] # conns[c]
                => (server' = server /\ published' = published)]_vars
    /\ \A c \in Conns :
          (conns[c].pc = "stream" /\ conns[c].cancelled) ~> (conns[c].pc = "done")

\* A stream handler that returned, after its context was cancelled, on a
\* server that another connection had opened the session of meanwhile.
C22_Witness ==
    \E c \in Conns :
        /\ conns[c].pc = "done"
        /\ conns[c].method = "GET"
        /\ conns[c].cancelled
        /\ server.initialized

\* Two handlers are both about to access the flag, one of them to write it,
\* and nothing orders the two accesses.
FlagRace ==
    \E c1, c2 \in Conns :
        /\ c1 # c2
        /\ conns[c1].pc = "dispatch"
        /\ conns[c2].pc = "dispatch"
        /\ FlagAccess(conns[c1].request) = "write"
        /\ FlagAccess(conns[c2].request) # "none"

\* C29 (as claimed): with HTTP requests handled concurrently, no state is
\* reachable in which one handler writes the session flag while another
\* reads or writes it with nothing ordering the two accesses.
C29_NoFlagRace == ~FlagRace

\* The gated requests that the concurrent handlers have answered.
Answered ==
    {c \in Conns : conns[c].pc = "done" /\ conns[c].method = "POST"
                   /\ conns[c].request.method \in Gated}

\* C30 (as claimed): a gated request handled beside an `initialized`
\* notification is answered -32002 if its dispatch reads the flag before the
\* notification is processed and is answered normally if it reads it after.
C30_AnswerFollowsTheFlag ==
    \A c \in Answered :
        IsError(conns[c].response, -32002) <=> ~conns[c].flagAtRead

\* What holds of C30: the answer follows the value read, which is the value
\* published when the handler was accepted or the value in memory; the
\* request is answered -32002 or as an Initialized server answers it, and
\* its handler can always take its step.
C30_AnswerFollowsTheValueRead ==
    /\ \A c \in Answered :
          /\ IsError(conns[c].response, -32002) <=> ~conns[c].read
          /\ conns[c].read \in {conns[c].base, conns[c].flagAtRead}
          /\ ~conns[c].read =>
                conns[c].response = NotInitialized(conns[c].request)
    /\ \A c \in Conns : conns[c].pc = "dispatch" => ENABLED ServeMessage(c)

\* This step is the loop of Run handling the line it has read.
HandlesLine == loop.pc = "handle" /\ loop'.pc # "handle"

\* The line the loop of Run read last.
LastLine == loop.lines[Len(loop.lines)]

\* C23: on the line transport, handling a non-empty line that does not parse
\* as a request writes one error response with code -32700 and id null,
\* leaves the server and the session as they were, and takes the loop back
\* to its top, from where it reads the next line.
C23_UnparseableLineAnswered ==
    [][(/\ HandlesLine
        /\ LastLine # EmptyLine
        /\ UnmarshalRequest(LastLine).err)
          => /\ server' = server
             /\ hist' = hist
             /\ dispatched' = <<>>
             /\ loop'.pc = "select"
             /\ loop'.result = Nil
             /\ Len(loop'.stdout) = Len(loop.stdout) + 1
             /\ LET written == loop'.stdout[Len(loop'.stdout)]
                IN  /\ written.line = Len(loop.lines)
                    /\ IsError(written.envelope, -32700)
                    /\ EncodeResponse(written.envelope).f["id"] = JNull]_vars

\* A line that does not parse was answered, and the loop has read the line
\* after it and answered that one too.
C23_Witness ==
    /\ loop.pc = "select"
    /\ Len(loop.lines) = 2
    /\ loop.lines[1] = Garbage
    /\ loop.lines[2] = Wire(JStr("1"), "prompts/list", Nil)
    /\ Len(loop.stdout) = 2
    /\ IsError(loop.stdout[1].envelope, -32700)
    /\ loop.stdout[2].line = 2

\* The lines the loop of Run has finished handling, by their place.
HandledLines ==
    1..(Len(loop.lines) - (IF loop.pc = "handle" THEN 1 ELSE 0))

\* The n-th line read parsed as a request that carries an id.
IsRequestLine(n) ==
    /\ loop.lines[n] # EmptyLine
    /\ ~UnmarshalRequest(loop.lines[n]).err
    /\ UnmarshalRequest(loop.lines[n]).request.id # Nil

\* The response lines on standard output that answer the n-th line.
ResponsesTo(n) == {j \in DOMAIN loop.stdout : loop.stdout[j].line = n}

\* C24 (as claimed): on the line transport every line that parsed as a
\* request with an id has exactly one response line once it is handled, the
\* response lines follow the order of their lines, and no line is read
\* before the line before it is handled and answered.
C24_OneResponsePerRequestInOrder ==
    loop.pc # "not running" =>
        /\ \A n \in HandledLines :
              IsRequestLine(n) => Cardinality(ResponsesTo(n)) = 1
        /\ \A j, k \in DOMAIN loop.stdout :
              j < k => loop.stdout[j].line <= loop.stdout[k].line
        /\ \A j \in DOMAIN loop.stdout : loop.stdout[j].line \in HandledLines

\* The same with the lines that name `initialized` not counted among the
\* requests: this holds.
C24_OneResponsePerRequestButInitialized ==
    loop.pc # "not running" =>
        /\ \A n \in HandledLines :
              (/\ IsRequestLine(n)
               /\ UnmarshalRequest(loop.lines[n]).request.method # "initialized")
                  => Cardinality(ResponsesTo(n)) = 1
        /\ \A j, k \in DOMAIN loop.stdout :
              j < k => loop.stdout[j].line <= loop.stdout[k].line
        /\ \A j \in DOMAIN loop.stdout : loop.stdout[j].line \in HandledLines

\* C25 (as claimed): when the loop of Run ends because its context was
\* cancelled, Run returns nil, as it does at the end of the input.
C25_CancelledRunReturnsNil ==
    (loop.pc = "returned" /\ loop.ended \in {"cancelled", "eof"})
        => loop.result = Nil

\* C25 (amended): when the loop of Run ends because its context was
\* cancelled, Run returns the context's error; at the end of the input it
\* returns nil.
C25_CancelledRunReturnsContextError ==
    /\ (loop.pc = "returned" /\ loop.ended = "cancelled")
          => (loop.cancelled /\ loop.result = ContextCanceled /\ loop.result # Nil)
    /\ (loop.pc = "returned" /\ loop.ended = "eof") => loop.result = Nil

\* Run returned because of the cancellation, after it had handled a line.
C25_Witness ==
    /\ loop.pc = "returned"
    /\ loop.ended = "cancelled"
    /\ Len(loop.lines) > 0
    /\ loop.result = ContextCanceled

\* A step of the loop of Run itself, as opposed to a step of the writer of
\* standard input or of whoever cancels the context.
LoopStep == Select \/ Scan \/ Handle

\* C26 (as claimed): once its context is cancelled the loop of Run needs no
\* further line and no end of stream to arrive to go on towards its return:
\* it is never left blocked in a read.
C26_CancelledLoopNeedsNoInput ==
    (loop.pc \in {"select", "scan", "handle"} /\ loop.cancelled)
        => ENABLED LoopStep

\* C27 (as claimed): when Run returns at the end of an input stream that did
\* not fail, whatever lines it held, it has handled every line and returns
\* nil; when the read fails it returns an error.
C27_StreamProcessedToItsEnd ==
    loop.pc = "returned" =>
        /\ loop.ended \notin {"error", "cancelled"}
              => (loop.ended = "eof" /\ loop.result = Nil)
        /\ loop.ended = "error" => loop.result # Nil

\* The same for streams whose lines fit the scanner's buffer: Run returns
\* nil at the end of the stream with every line read handled, an error
\* when the read fails, and an error too at a line that is too long.
C27_ShortLinesProcessedToTheEnd ==
    loop.pc = "returned" =>
        /\ loop.ended = "eof"
              => (loop.result = Nil /\ HandledLines = DOMAIN loop.lines)
        /\ loop.ended \in {"error", "toolong"} => loop.result # Nil

\* Well-formed messages, one for each method, that may come next.
FollowUps ==
    {UnmarshalRequest(Wire(JStr("1"), method, Nil)).request : method \in Methods}
    \cup {UnmarshalRequest(Wire(JStr("1"), "prompts/get", JObj([name |-> JStr("p")]))).request}

\* The codes of the errors the server answers.
ErrorCodes == {-32700, -32601, -32602, -32002, -32603}

\* The last call wrote an error envelope: a parse error, or the answer to
\* the only message it dispatched.
AnsweredError ==
    /\ transport \in {"stdio", "http"}
    /\ Len(out) = 1
    /\ out[1].envelope.error # Nil
    /\ out[1].envelope.error.code \in ErrorCodes
    /\ Len(dispatched) <= 1

\* C28: a call that is answered with an error leaves the server as it was,
\* so that any well-formed message that comes next is dispatched exactly as
\* it would have been before the failing one; and within a batch a message
\* answered with an error leaves the session as it found it.
C28_ErrorsLeaveServerServing ==
    /\ [][AnsweredError' =>
            /\ server' = server
            /\ \A request \in FollowUps :
                  \A order \in Perms(DOMAIN server.promptRegistry.prompts) :
                      handleRequest(server', order, request)
                          = handleRequest(server, order, request)]_vars
    /\ [](\A i \in DOMAIN dispatched :
            (dispatched[i].response # Nil /\ dispatched[i].response.error # Nil)
                => dispatched[i].after = dispatched[i].before)

\* An Initialized server answered -32603 for a failing prompt handler.
C28_Witness ==
    /\ AnsweredError
    /\ out[1].envelope.error.code = -32603
    /\ dispatched[1].calls # <<>>
    /\ server.initialized

\* C31: after any sequence of registrations, of new names and of names
\* registered before, the names of the handler map are the names of the
\* prompt-metadata map, and each prompt is stored under its own name.
C31_HandlersAndMetadataAgree ==
    /\ DOMAIN server.promptRegistry.handlers = DOMAIN server.promptRegistry.prompts
    /\ \A name \in DOMAIN server.promptRegistry.prompts :
          server.promptRegistry.prompts[name].name = name

\* The last call was a registration and both names are registered, with
\* handlers other than the first one tried.
C31_Witness ==
    /\ transport = "register"
    /\ DOMAIN server.promptRegistry.handlers = {"p", "q"}
    /\ server.promptRegistry.handlers["p"] = "fail"
    /\ server.promptRegistry.handlers["q"] = "nil"

\* The registrations of name that come before entry i of the log.
RegisteredBefore(i, name) ==
    {j \in 1..(i - 1) : direct.log[j].op = "Register" /\ direct.log[j].name = name}

\* The greatest member of a non-empty set of numbers.
Latest(S) == CHOOSE j \in S : \A k \in S : k <= j

C32_WitnessUnknown ==
    /\ Len(direct.log) = 2
    /\ direct.log[1].op = "Register"
    /\ direct.log[2].op = "Execute"
    /\ direct.log[2].name = "unknown"
    /\ direct.log[2].err = JStr("prompt not found: unknown")

RECURSIVE Replaced(_, _)
\* The content with each placeholder of a supplied argument, as it stands
\* in the content, replaced by the value of that argument.
Replaced(content, args) ==
    IF content = <<>> THEN <<>>
    ELSE IF \E name \in Keys(args) : HasPrefix(content, Placeholder(name))
         THEN LET name == CHOOSE n \in Keys(args) : HasPrefix(content, Placeholder(n))
              IN  args[name]
                  \o Replaced(SubSeq(content, Len(Placeholder(name)) + 1, Len(content)), args)
         ELSE <<Head(content)>> \o Replaced(Tail(content), args)

\* One user text message.
UserText(text) == <<[role |-> "user", content |-> [type |-> "text", text |-> text]]>>

\* What the claim says of one call of the default handler.
HandlerReplaces(def, args, returned) ==
    IF def.Content = <<>>
    THEN returned.err # Nil /\ returned.result = Nil
    ELSE /\ returned.err = Nil
         /\ returned.result.messages = UserText(Replaced(def.Content, args))

\* No value of the map holds a brace.
PlainValues(args) ==
    \A name \in Keys(args) : \A i \in DOMAIN args[name] : args[name][i] \notin {"{", "}"}

\* C33: the default handler of a definition with content returns one user
\* text message whose text is the content with every placeholder of a
\* supplied argument replaced by that argument's value, placeholders of
\* other names left as they are; with empty content it fails.
C33_PlaceholdersReplaced ==
    direct.handler # Nil =>
        HandlerReplaces(direct.handler.def, direct.handler.args, direct.handler.first)

\* What holds of C33: the same, for argument values without braces.
C33_PlainValuesReplaced ==
    (direct.handler # Nil /\ PlainValues(direct.handler.args)) =>
        HandlerReplaces(direct.handler.def, direct.handler.args, direct.handler.first)

\* A content with an unsupplied placeholder and a supplied one was filled in.
C33_PlainWitness ==
    /\ direct.handler # Nil
    /\ direct.handler.def.Content = Placeholder(<<"c">>) \o Placeholder(<<"b">>)
    /\ Keys(direct.handler.args) = {<<"b">>}
    /\ direct.handler.args[<<"b">>] = <<"x">>
    /\ direct.handler.first.err = Nil
    /\ direct.handler.first.result.messages = UserText(Placeholder(<<"c">>) \o <<"x">>)

\* C39: for a fixed content and a fixed argument map the default handler
\* returns the same text every time, in whatever order it visits the
\* arguments, also when a value holds the placeholder of another argument.
C39_SameTextEveryTime ==
    (direct.handler # Nil /\ direct.handler.again # Nil) =>
        direct.handler.again = direct.handler.first

\* What holds of C39: the same, for argument values without braces.
C39_SameTextForPlainValues ==
    (direct.handler # Nil /\ direct.handler.again # Nil
        /\ PlainValues(direct.handler.args)) =>
        direct.handler.again = direct.handler.first

\* Two arguments with plain values were filled in twice.
C39_PlainWitness ==
    /\ direct.handler # Nil
    /\ direct.handler.again # Nil
    /\ Keys(direct.handler.args) = ArgumentNames
    /\ PlainValues(direct.handler.args)
    /\ direct.handler.first.err = Nil

\* C34: the elements of a batch are dispatched one after another in array
\* order, each on the session the one before it left; so in a batch sent to
\* an Uninitialized server a prompts/list request answers -32002 when no
\* `initialized` element stands before it and the prompt list when one does.
C34_BatchDispatchedInArrayOrder ==
    PostedBatch =>
        /\ Len(dispatched) = Len(input.body.e)
        /\ \A i \in DOMAIN dispatched :
              /\ dispatched[i].request = UnmarshalRequest(input.body.e[i]).request
              /\ i > 1 => dispatched[i].before = dispatched[i - 1].after
              /\ (/\ ~dispatched[1].before.initialized
                  /\ dispatched[i].request.method = "prompts/list"
                  /\ dispatched[i].request.id # Nil) =>
                    IF \E j \in 1..(i - 1) : dispatched[j].request.method = "initialized"
                    THEN /\ IsResult(dispatched[i].response)
                         /\ \E order \in Perms(DOMAIN server.promptRegistry.prompts) :
                               dispatched[i].response.result.prompts
                                   = List(server.promptRegistry, order)
                    ELSE IsError(dispatched[i].response, -32002)

\* An Uninitialized server with a prompt registered was sent a batch with a
\* prompts/list request on either side of an `initialized` notification.
C34_Witness ==
    /\ PostedBatch
    /\ input.body = OrderedBatch
    /\ ~dispatched[1].before.initialized
    /\ DOMAIN server.promptRegistry.prompts # {}
    /\ Len(out) = 2
    /\ IsError(out[1].envelope, -32002)
    /\ IsResult(out[2].envelope)

\* What an Initialized server answers to the request of connection c.
InitializedAnswer(c) ==
    handleRequest([server EXCEPT !.initialized = TRUE],
                  CHOOSE o \in Perms(DOMAIN server.promptRegistry.prompts) : TRUE,
                  conns[c].request).response

\* C35: over HTTP the session flag is one value for the server, shared by
\* all clients: a prompts/list or prompts/get request that arrives after the
\* `initialized` message of any other client was dispatched is answered as
\* an Initialized server answers it, never -32002, whether or not its own
\* client has sent `initialized`.
C35_FlagSharedByAllClients ==
    \A c \in Answered :
        conns[c].others # {} =>
            /\ ~IsError(conns[c].response, -32002)
            /\ conns[c].response = InitializedAnswer(c)

\* A client that never sent `initialized` had its prompts/list answered
\* with a result after another client's `initialized` was dispatched.
C35_Witness ==
    \E c \in Answered :
        /\ conns[c].others # {}
        /\ ~conns[c].sentInitialized
        /\ conns[c].request.method = "prompts/list"
        /\ IsResult(conns[c].response)

\* The same for a prompts/get request, which passes the gate.
C35_WitnessGet ==
    \E c \in Answered :
        /\ conns[c].others # {}
        /\ ~conns[c].sentInitialized
        /\ conns[c].request.method = "prompts/get"
        /\ IsError(conns[c].response, -32603)

\* C36: no prompt handler is invoked while the session is Uninitialized:
\* every dispatch that invokes a handler, of a request or of a notification
\* and on either transport, finds the flag set and comes after the dispatch
\* of an `initialized` message.
C36_NoHandlerBeforeInitialized ==
    \A i \in DOMAIN dispatched :
        dispatched[i].calls # <<>> =>
            /\ transport \in {"stdio", "http"}
            /\ dispatched[i].request.method = "prompts/get"
            /\ dispatched[i].before.initialized
            /\ dispatched[i].hist.initialized

\* A prompts/get request read from standard input invoked a handler.
C36_Witness ==
    /\ transport = "stdio"
    /\ \E i \in DOMAIN dispatched :
          /\ dispatched[i].calls # <<>>
          /\ dispatched[i].request.id # Nil

\* A prompts/get notification POSTed over HTTP invoked a handler.
C36_WitnessNotification ==
    /\ transport = "http"
    /\ \E i \in DOMAIN dispatched :
          /\ dispatched[i].calls # <<>>
          /\ dispatched[i].request.id = Nil

\* A batch set the flag and invoked a handler in the same call.
C36_WitnessBatch ==
    /\ transport = "http"
    /\ \E i \in DOMAIN dispatched :
          /\ dispatched[i].calls # <<>>
          /\ ~dispatched[1].before.initialized

\* C37: an HTTP POST that is answered with 400 dispatches nothing and leaves
\* the server and the history of dispatches as they were, also when the body
\* is an array that begins with valid messages: a batch is parsed as a whole
\* or not at all.
C37_RejectedPostDispatchesNothing ==
    [][(transport' = "http" /\ input'.method = "POST" /\ http'.status = 400) =>
          /\ dispatched' = <<>>
          /\ server' = server
          /\ hist' = hist]_vars

\* An Uninitialized server answered 400 to an array whose first element is a
\* valid `initialized` notification and whose second is a number.
C37_Witness ==
    /\ transport = "http"
    /\ input.method = "POST"
    /\ input.body = JArr(<<Wire(Nil, "initialized", Nil), JNum("7")>>)
    /\ http.status = 400
    /\ dispatched = <<>>
    /\ ~server.initialized
    /\ ~hist.initialized

\* The dispatches of a prompts/get without params on an Initialized server.
GetWithoutParams ==
    {i \in DOMAIN dispatched :
        /\ dispatched[i].request.method = "prompts/get"
        /\ dispatched[i].request.params = Nil
        /\ dispatched[i].before.initialized}

\* C38: while Initialized, a prompts/get without params is not rejected with
\* -32602; the empty prompt name is looked up with no arguments: -32603
\* (prompt not found) when no prompt is registered under the empty name, and
\* otherwise that prompt's handler runs and its outcome is the answer.
C38_AbsentParamsLookUpEmptyName ==
    \A i \in GetWithoutParams :
        LET d == dispatched[i]
            handlers == server.promptRegistry.handlers
        IN  /\ ~IsError(d.response, -32602)
            /\ IF "" \notin DOMAIN handlers
               THEN /\ IsError(d.response, -32603)
                    /\ d.response.error.message = "prompt not found: "
                    /\ d.calls = <<>>
               ELSE /\ d.calls = <<HandlerCall("", Nil)>>
                    /\ handlers[""] = "ok" =>
                          (IsResult(d.response) /\ d.response.result = HandlerResult)
                    /\ handlers[""] = "fail" =>
                          (IsError(d.response, -32603)
                           /\ d.response.error.message = HandlerError)

\* The handler of the prompt registered under the empty name ran for a
\* request without params.
C38_Witness ==
    \E i \in GetWithoutParams :
        /\ dispatched[i].request.id # Nil
        /\ dispatched[i].calls = <<HandlerCall("", Nil)>>
        /\ IsResult(dispatched[i].response)

\* No prompt has the empty name: the request is answered -32603.
C38_WitnessNotFound ==
    \E i \in GetWithoutParams :
        /\ dispatched[i].request.id # Nil
        /\ "" \notin DOMAIN server.promptRegistry.handlers
        /\ "p" \in DOMAIN server.promptRegistry.handlers
        /\ IsError(dispatched[i].response, -32603)

\* A body that decodes as one request with no method and no id.
NoMethodNoId(body) ==
    /\ ~UnmarshalRequest(body).err
    /\ UnmarshalRequest(body).request.method = ""
    /\ UnmarshalRequest(body).request.id = Nil

\* The last call was a POST of such a body.
PostedNoMethodNoId ==
    transport = "http" /\ input.method = "POST" /\ NoMethodNoId(input.body)

\* C40: a body that parses as a request but carries no method and no id,
\* such as {} or null, is no parse error and no invalid request: over HTTP it
\* is dispatched as a notification to an unknown method and answered 202
\* with an empty body, and it leaves the session as it was.
C40_EmptyMessageIsANotification ==
    /\ [](PostedNoMethodNoId =>
            /\ http.status = 202
            /\ out = <<>>
            /\ Len(dispatched) = 1
            /\ dispatched[1].request.method \notin Known
            /\ IsError(dispatched[1].response, -32601)
            /\ dispatched[1].calls = <<>>
            /\ dispatched[1].after = dispatched[1].before
            /\ Session(server) = dispatched[1].before)
    /\ [][PostedNoMethodNoId' => server' = server]_vars

\* The body {} was POSTed to an Initialized server, which stayed so.
C40_Witness ==
    /\ PostedNoMethodNoId
    /\ input.body = JObj(<<>>)
    /\ http.status = 202
    /\ server.initialized

\* The body null was POSTed to an Uninitialized server, which stayed so.
C40_WitnessNull ==
    /\ PostedNoMethodNoId
    /\ input.body = JNull
    /\ http.status = 202
    /\ ~server.initialized

====
